---- MODULE Spec2Model ----
(***************************************************************************)
(* A model of the command-line splitting and quoting functions of          *)
(* src/libs/utils/qtcprocess.cpp (Utils::ProcessArgs).                     *)
(*                                                                         *)
(* A QString is modelled as a sequence of UTF-16 code units (integers), a  *)
(* QStringList as a sequence of such sequences.  The static functions are  *)
(* operators that follow the control flow of the C++ (one operator per     *)
(* label or loop head), and the actions are the calls a client makes.      *)
(***************************************************************************)
EXTENDS Integers, Sequences, FiniteSets, TLC

VARIABLES
    os,          \* OsType the calls are made for: "unix" or "win"
    argList,     \* the QStringList a client hands to joinArgs
    args,        \* the command-line QString handed to splitArgs
    quoted,      \* TRUE when args was produced by joinArgs/quoteArg
    abortOnMeta, \* the abortOnMeta argument of the last splitArgs call
    env,         \* the Environment argument of the last splitArgs call
    errIn,       \* what the caller's SplitError variable held before the call
    err,         \* the caller's SplitError variable
    ret,         \* the QStringList the last splitArgs call returned
    pc,          \* "input" (client builds the input), then the call made:
                 \* "joined", "split", "prepared"
    command,     \* the command QString handed to prepareCommand
    hostOs,      \* HostOsInfo::hostOs(), the OsType of the calls that name none
    shell,       \* the process environment: SHELL and COMSPEC
    outCmd,      \* *outCmd of prepareCommand
    outArgs,     \* *outArgs of prepareCommand
    prepOk,      \* what prepareCommand returned
    expander,    \* the macro expander handed to expandMacros: name -> value
    expanded,    \* *cmd after expandMacros(&cmd, mx, os), called with cmd = args
    mxOk,        \* what expandMacros returned
    iter,        \* the ArgIterator over a copy of args: m_str (*m_str), m_pos,
                 \* m_prev, m_simple, m_value
    walk,        \* what the next() calls made so far returned: ret, and the
                 \* isSimple() and value() a client reads after the call
    deleted,     \* the number of the argument deleteArg was called for (0: none)
    appended,    \* <<s>> once appendArg(s) was called, <<>> before
    m_stdOut,    \* QtcProcessPrivate::m_stdOut, a ChannelBuffer
    m_stdErr,    \* QtcProcessPrivate::m_stdErr, a ChannelBuffer
    emitted,     \* per channel, the texts the output callback was called with,
                 \* one after the other
    decoded,     \* per channel, the texts codec->toUnicode returned in
                 \* linesRead since the last clearForRun, one after the other
    chunks,      \* per channel, the byte arrays handed to append since the
                 \* last clearForRun
    bulk,        \* per channel, <<text>> once the text of the whole output was
                 \* read with stdOut() / stdErr(), <<>> before
    priv,        \* *d, the QtcProcessPrivate of a SynchronousProcess: m_result,
                 \* m_codec, m_hangTimerCount, m_maxHangTimerCount, m_startFailure,
                 \* m_timeOutMessageBoxEnabled, m_waitingForUser, m_timer
                 \* (active or not), m_eventLoop ("idle", "exec", "quit")
    child,       \* the QProcess side: state(), the signals sent to the child
                 \* and what kind of program the child is
    hist,        \* what happened in the current run: the calls of terminate()
                 \* and kill(), the timer ticks, the bytes read, the result
                 \* the run returned
    at,          \* the wait the program stands in: fn, the function of
                 \* QtcProcess that waits for the child, and wait, which of
                 \* its waits it is ("none": it stands in no wait)
    codecForLocale, \* QTextCodec::codecForLocale()
    reading      \* the readDataFromProcess call: its arguments, *stdOut and
                 \* *stdErr, where it stands and what its last wait saw

\* the variables of the splitArgs / joinArgs calls
splitVars == <<os, argList, args, quoted, abortOnMeta, env, errIn, err, ret, pc>>

\* the variables of the prepareCommand calls
prepVars == <<command, hostOs, shell, outCmd, outArgs, prepOk>>

\* the variables of the expandMacros calls
macroVars == <<expander, expanded, mxOk>>

\* the variables of the ArgIterator calls
iterVars == <<iter, walk, deleted, appended>>

\* the variables of the ChannelBuffer calls
chanVars == <<m_stdOut, m_stdErr, emitted, decoded, chunks, bulk>>

\* the variables of the SynchronousProcess runs
procVars == <<priv, child, hist, at, codecForLocale>>

\* the variables of the readDataFromProcess calls
readVars == <<reading>>

vars == <<splitVars, prepVars, macroVars, iterVars, chanVars, procVars, readVars>>

\* what the splitArgs / joinArgs calls leave alone
notSplit == <<prepVars, macroVars, iterVars, chanVars, procVars, readVars>>

\* what the prepareCommand calls leave alone
notPrep == <<macroVars, iterVars, chanVars, procVars, readVars>>

\* what the expandMacros calls leave alone
notMacro == <<prepVars, iterVars, chanVars, procVars, readVars>>

\* what the ArgIterator calls leave alone
notIter == <<prepVars, macroVars, chanVars, procVars, readVars>>

\* what the ChannelBuffer calls leave alone
notChan == <<splitVars, prepVars, macroVars, iterVars, procVars, readVars>>

\* what the SynchronousProcess runs leave alone
notProc == <<splitVars, prepVars, macroVars, iterVars, emitted, decoded, chunks, bulk, readVars>>

\* what the readDataFromProcess calls leave alone
notRead == <<splitVars, prepVars, macroVars, iterVars, chanVars, procVars>>

(***************************************************************************)
(* Characters (UTF-16 code units) the code names in literals.              *)
(***************************************************************************)
ChTab == 9
ChNewline == 10
ChSpace == 32
ChDQuote == 34
ChDollar == 36
ChPercent == 37
ChSQuote == 39
ChSlash == 47
ChAt == 64
ChBackslash == 92
ChCaret == 94
ChUnderscore == 95
ChBacktick == 96
ChLBrace == 123
ChRBrace == 125
ChTilde == 126

Min(S) == CHOOSE x \in S : \A y \in S : x <= y

\* args.unicode()[p] for a 0-based p
At(s, p) == s[p + 1]

\* QString::mid(position, n): at most the rest of the string
Mid(s, position, n) ==
    SubSeq(s, position + 1, IF position + n > Len(s) THEN Len(s) ELSE position + n)

\* QString::indexOf(ch, from): 0-based index of the first ch at or after from, or -1
IndexOf(s, ch, from) ==
    LET hits == {i \in from..(Len(s) - 1) : At(s, i) = ch}
    IN  IF hits = {} THEN -1 ELSE Min(hits)

\* bit (c & 7) of byte iqm[c / 8] of a 16-byte table, for c below 128
InTable(iqm, c) ==
    /\ c < Len(iqm) * 8
    /\ (iqm[(c \div 8) + 1] \div (2 ^ (c % 8))) % 2 = 1

\* QChar::isSpace(): space, U+0009..U+000D, U+0085, U+00A0 and the other
\* Separator_* code points (of which the model's alphabets hold U+00A0 only)
isSpace(c) == c = 32 \/ (c >= 9 /\ c <= 13) \/ c = 133 \/ c = 160

\* QChar::isLetterOrNumber() on the ASCII range
isLetterOrNumber(c) ==
    \/ (c >= 48 /\ c <= 57)
    \/ (c >= 65 /\ c <= 90)
    \/ (c >= 97 /\ c <= 122)

\* QString::toUpper() on the ASCII range
toUpperChar(c) == IF c >= 97 /\ c <= 122 THEN c - 32 ELSE c
toUpper(s) == [i \in 1..Len(s) |-> toUpperChar(s[i])]

(***************************************************************************)
(* Environment: NULL or a set of <<key, value>> pairs.  The value stored   *)
(* is the one expandedValueForKey returns.                                 *)
(***************************************************************************)
NullEnv == [null |-> TRUE, vars |-> {}]
MkEnv(pairs) == [null |-> FALSE, vars |-> pairs]

\* every name is found
envHasAlways(e, var) == TRUE

\* env->constFind(var) != env->constEnd()
envHas(e, var) == \E p \in e.vars : p[1] = var

\* env->expandedValueForKey(key); the empty string for a key that is not set
expandedValueForKey(e, var) ==
    IF \E p \in e.vars : p[1] = var
    THEN (CHOOSE p \in e.vars : p[1] = var)[2]
    ELSE <<>>

\* QDir::homePath()
HomePath == <<47, 104>>

\* the name "PWD"
pwdName == <<80, 87, 68>>

\* the name "CD"
cdName == <<67, 68>>

(***************************************************************************)
(* SplitError and the result of a split: the status written through err    *)
(* and the list returned.                                                  *)
(***************************************************************************)
SplitError == {"SplitOk", "BadQuoting", "FoundMeta"}

okret(r) == [err |-> "SplitOk", ret |-> r]
quoteerr == [err |-> "BadQuoting", ret |-> <<>>]
metaerr == [err |-> "FoundMeta", ret |-> <<>>]

(***************************************************************************)
(* Unix: splitArgsUnix.  cx is the call's arguments [a, ab, e, pwd]: the   *)
(* string, abortOnMeta, the Environment (or NullEnv) and the working       *)
(* directory (<<>> when pwd is NULL or empty).  pos is the C++ pos.        *)
(***************************************************************************)
iqmMetaUnix == <<0, 0, 0, 0, 220, 7, 0, 216, 0, 0, 0, 56, 1, 0, 0, 56>>

\* a table without '|' and '&'
isMetaUnixNoPipe(c) == InTable(iqmMetaUnix, c) /\ c # 124 /\ c # 38

isMetaUnix(c) == InTable(iqmMetaUnix, c)

RECURSIVE readVar(_, _, _, _)
\* while (c.isLetterOrNumber() || c == '_') { var += c; <end of input?>; c = next }
\* eof: the input ended inside the loop, after var += c
readVar(a, pos, c, var) ==
    IF isLetterOrNumber(c) \/ c = ChUnderscore
    THEN IF pos >= Len(a)
         THEN [var |-> Append(var, c), pos |-> pos, c |-> c, eof |-> TRUE]
         ELSE readVar(a, pos + 1, At(a, pos), Append(var, c))
    ELSE [var |-> var, pos |-> pos, c |-> c, eof |-> FALSE]

\* only the space separates
isValueSeparatorSpaceOnly(cc) == cc = ChSpace

\* cc.unicode() == 9 || cc.unicode() == 10 || cc.unicode() == 32
isValueSeparator(cc) == cc = ChTab \/ cc = ChNewline \/ cc = ChSpace

RECURSIVE expandWords(_, _, _, _, _)
\* the loop over the value of an unquoted variable reference
expandWords(val, i, r, cret, hadWord) ==
    IF i >= Len(val) THEN [ret |-> r, cret |-> cret, hadWord |-> hadWord]
    ELSE LET cc == At(val, i)
         IN  IF isValueSeparator(cc)
             THEN IF hadWord
                  THEN expandWords(val, i + 1, Append(r, cret), <<>>, FALSE)
                  ELSE expandWords(val, i + 1, r, cret, hadWord)
             ELSE expandWords(val, i + 1, r, Append(cret, cc), TRUE)

\* the variable named var is PWD and a working directory was given
isPwdRef(cx, var) == var = pwdName /\ cx.pwd # <<>>

\* a backslash inside double quotes stays in the word before c
keepsBackslash(ab, c) ==
    /\ c # ChDQuote
    /\ c # ChBackslash
    /\ ~(ab /\ (c = ChDollar \/ c = ChBacktick))

RECURSIVE UxSkip(_, _, _), UxChar(_, _, _, _, _, _), UxGetc(_, _, _, _, _),
          UxDq(_, _, _, _), UxDqChar(_, _, _, _, _)

\* the end of the do-while: the word is complete
UxEndWord(cx, pos, r, cret, hadWord) ==
    UxSkip(cx, pos, IF hadWord THEN Append(r, cret) ELSE r)

\* label nextc and the loop condition while (!c.isSpace())
UxNextc(cx, pos, c, r, cret, hadWord) ==
    IF isSpace(c)
    THEN UxEndWord(cx, pos, r, cret, hadWord)
    ELSE UxChar(cx, pos, c, r, cret, hadWord)

\* label getc
UxGetc(cx, pos, r, cret, hadWord) ==
    IF pos >= Len(cx.a)
    THEN UxEndWord(cx, pos, r, cret, hadWord)
    ELSE UxNextc(cx, pos + 1, At(cx.a, pos), r, cret, hadWord)

\* the $ is taken as a character of the word
UxDqDollarLiteral(cx, pos, r, cret) == UxDq(cx, pos, r, Append(cret, ChDollar))

\* $ inside double quotes with an environment
UxDqDollar(cx, pos, r, cret) ==
    IF pos >= Len(cx.a) THEN quoteerr
    ELSE
    LET c1 == At(cx.a, pos)
        braced == c1 = ChLBrace
    IN
    IF braced /\ pos + 1 >= Len(cx.a) THEN quoteerr
    ELSE
    LET v == IF braced
             THEN readVar(cx.a, pos + 2, At(cx.a, pos + 1), <<>>)
             ELSE readVar(cx.a, pos + 1, c1, <<>>)
    IN
    IF v.eof THEN quoteerr
    ELSE IF ~isPwdRef(cx, v.var) /\ ~envHas(cx.e, v.var) /\ cx.ab THEN metaerr
    ELSE
    LET cret2 == cret \o (IF isPwdRef(cx, v.var) THEN cx.pwd
                          ELSE expandedValueForKey(cx.e, v.var))
    IN
    IF ~braced THEN UxDqChar(cx, v.pos, v.c, r, cret2)
    ELSE IF v.c # ChRBrace THEN (IF cx.ab THEN metaerr ELSE quoteerr)
    ELSE UxDq(cx, v.pos, r, cret2)

\* label nextq: one character c inside double quotes
UxDqChar(cx, pos, c, r, cret) ==
    IF c = ChDQuote THEN UxGetc(cx, pos, r, cret, TRUE)
    ELSE IF c = ChBackslash
    THEN IF pos >= Len(cx.a) THEN quoteerr
         ELSE LET c2 == At(cx.a, pos)
              IN  UxDq(cx, pos + 1, r,
                       (IF keepsBackslash(cx.ab, c2)
                        THEN Append(cret, ChBackslash) ELSE cret) \o <<c2>>)
    ELSE IF c = ChDollar /\ ~cx.e.null THEN UxDqDollar(cx, pos, r, cret)
    ELSE IF cx.ab /\ (c = ChDollar \/ c = ChBacktick) THEN metaerr
    ELSE UxDq(cx, pos, r, Append(cret, c))

\* the end of the input closes the double quotes
UxDqRepair(cx, pos, r, cret) ==
    IF pos >= Len(cx.a) THEN UxEndWord(cx, pos, r, cret, TRUE)
    ELSE UxDqChar(cx, pos + 1, At(cx.a, pos), r, cret)

\* the for (;;) head inside double quotes
UxDq(cx, pos, r, cret) ==
    IF pos >= Len(cx.a) THEN quoteerr
    ELSE UxDqChar(cx, pos + 1, At(cx.a, pos), r, cret)

\* an unquoted $ with an environment
UxDollar(cx, pos, r, cret, hadWord) ==
    IF pos >= Len(cx.a) THEN quoteerr
    ELSE
    LET c1 == At(cx.a, pos)
        braced == c1 = ChLBrace
    IN
    IF braced /\ pos + 1 >= Len(cx.a) THEN quoteerr
    ELSE
    LET v == IF braced
             THEN readVar(cx.a, pos + 2, At(cx.a, pos + 1), <<>>)
             ELSE readVar(cx.a, pos + 1, c1, <<>>)
        cAfter == IF v.eof THEN ChSpace ELSE v.c
    IN
    IF v.eof /\ braced THEN quoteerr
    ELSE IF ~isPwdRef(cx, v.var) /\ ~envHas(cx.e, v.var) /\ cx.ab THEN metaerr
    ELSE
    LET val == IF isPwdRef(cx, v.var) THEN cx.pwd
               ELSE expandedValueForKey(cx.e, v.var)
        w == expandWords(val, 0, r, cret, hadWord)
    IN
    IF ~braced THEN UxNextc(cx, v.pos, cAfter, w.ret, w.cret, w.hadWord)
    ELSE IF cAfter # ChRBrace THEN (IF cx.ab THEN metaerr ELSE quoteerr)
    ELSE UxGetc(cx, v.pos, w.ret, w.cret, w.hadWord)

\* the body of the do-while for the character c
UxChar(cx, pos, c, r, cret, hadWord) ==
    IF c = ChSQuote
    THEN LET q == IndexOf(cx.a, ChSQuote, pos)
         IN  IF q < 0 THEN quoteerr
             ELSE UxGetc(cx, q + 1, r, cret \o Mid(cx.a, pos, q - pos), TRUE)
    ELSE IF c = ChDQuote THEN UxDq(cx, pos, r, cret)
    ELSE IF c = ChDollar /\ ~cx.e.null THEN UxDollar(cx, pos, r, cret, hadWord)
    ELSE IF c = ChBackslash
    THEN IF pos >= Len(cx.a) THEN quoteerr
         ELSE UxGetc(cx, pos + 1, r, Append(cret, At(cx.a, pos)), TRUE)
    ELSE IF cx.ab /\ isMetaUnix(c) THEN metaerr
    ELSE UxGetc(cx, pos, r, Append(cret, c), TRUE)

\* the start of a word: the ~ rule
UxStart(cx, pos, c, r) ==
    IF c = ChTilde
    THEN IF pos >= Len(cx.a) \/ isSpace(At(cx.a, pos)) \/ At(cx.a, pos) = ChSlash
         THEN UxGetc(cx, pos, r, HomePath, TRUE)
         ELSE IF cx.ab THEN metaerr
         ELSE UxChar(cx, pos, c, r, <<>>, FALSE)
    ELSE UxChar(cx, pos, c, r, <<>>, FALSE)

\* the head of the outer for: skip whitespace
UxSkip(cx, pos, r) ==
    IF pos >= Len(cx.a) THEN okret(r)
    ELSE IF isSpace(At(cx.a, pos)) THEN UxSkip(cx, pos + 1, r)
    ELSE UxStart(cx, pos + 1, At(cx.a, pos), r)

splitArgsUnix(a, ab, e, pwd) ==
    UxSkip([a |-> a, ab |-> ab, e |-> e, pwd |-> pwd], 0, <<>>)

(***************************************************************************)
(* Unix: quoteArgUnix.                                                     *)
(***************************************************************************)
iqmSpecialUnix ==
    <<255, 255, 255, 255, 223, 7, 0, 216, 0, 0, 0, 56, 1, 0, 0, 120>>

isSpecialCharUnix(c) == InTable(iqmSpecialUnix, c)

hasSpecialCharsUnix(arg) == \E x \in 1..Len(arg) : isSpecialCharUnix(arg[x])

RECURSIVE replaceChar(_, _, _)
\* QString::replace(QChar before, QString after)
replaceChar(s, before, after) ==
    IF s = <<>> THEN <<>>
    ELSE (IF Head(s) = before THEN after ELSE <<Head(s)>>)
         \o replaceChar(Tail(s), before, after)

quoteArgUnix(arg) ==
    IF arg = <<>> THEN <<ChSQuote, ChSQuote>>
    ELSE IF hasSpecialCharsUnix(arg)
    THEN <<ChSQuote>>
         \o replaceChar(arg, ChSQuote, <<ChSQuote, ChBackslash, ChSQuote, ChSQuote>>)
         \o <<ChSQuote>>
    ELSE arg


(***************************************************************************)
(* Windows: envExpandWin, prepareArgsWin (the cmd layer), doSplitArgsWin   *)
(* (the C runtime's tokenization), splitArgsWin and quoteArgWin.           *)
(***************************************************************************)
iqmMetaWin == <<0, 0, 0, 0, 64, 3, 0, 80, 0, 0, 0, 0, 0, 0, 0, 16>>

isMetaCharWin(c) == InTable(iqmMetaWin, c)

\* QDir::toNativeSeparators on a host of type host: every / becomes a
\* backslash on a Windows host, the string is left as it is on any other
toNativeSeparators(s, host) ==
    IF host = "win" THEN replaceChar(s, ChSlash, <<ChBackslash>>) ELSE s

\* the value envExpandWin substitutes for the upper-cased name var
winValue(var, e, pwd, host) ==
    IF var = cdName /\ pwd # <<>>
    THEN toNativeSeparators(pwd, host)
    ELSE expandedValueForKey(e, var)

RECURSIVE envExpandFrom(_, _, _, _, _, _)
\* the for loop of envExpandWin, at its condition, with the C++ off and prev
envExpandFrom(a, off, prev, e, pwd, host) ==
    LET that == IndexOf(a, ChPercent, off)
    IN  IF that < 0 THEN a
        ELSE IF prev >= 0
        THEN LET var == toUpper(Mid(a, prev + 1, that - prev - 1))
                 val == winValue(var, e, pwd, host)
             IN  IF val # <<>>
                 THEN envExpandFrom(
                          SubSeq(a, 1, prev) \o val \o SubSeq(a, that + 2, Len(a)),
                          prev + Len(val), -1, e, pwd, host)
                 ELSE envExpandFrom(a, that + 1, that, e, pwd, host)
        ELSE envExpandFrom(a, that + 1, that, e, pwd, host)

envExpandWin(a, e, pwd, host) == envExpandFrom(a, 0, -1, e, pwd, host)

\* QString::remove(p, 1)
removeAt(a, p) == SubSeq(a, 1, p) \o SubSeq(a, p + 2, Len(a))

RECURSIVE prepareScan(_, _)
\* the for loop of prepareArgsWin at its condition p < args.length()
prepareScan(a, p) ==
    IF p >= Len(a) THEN [err |-> "SplitOk", args |-> a]
    ELSE LET c == At(a, p)
         IN  IF c = ChCaret THEN prepareScan(removeAt(a, p), p + 1)
             ELSE IF c = ChDQuote
             THEN LET q == IndexOf(a, ChDQuote, p + 1)
                  IN  IF q < 0 THEN [err |-> "SplitOk", args |-> a]
                      ELSE prepareScan(a, q + 1)
             ELSE IF isMetaCharWin(c) THEN [err |-> "FoundMeta", args |-> <<>>]
             ELSE prepareScan(a, p + 1)

\* the result: the status written to *err and the native argument string
prepareArgsWin(a, e, pwd, host) ==
    IF e.null /\ IndexOf(a, ChPercent, 0) >= 0
    THEN [err |-> "FoundMeta", args |-> <<>>]
    ELSE LET a1 == IF e.null THEN a ELSE envExpandWin(a, e, pwd, host)
             a2 == IF a1 # <<>> /\ a1[1] = ChAt THEN Tail(a1) ELSE a1
         IN  prepareScan(a2, 0)

isWhiteSpaceWin(c) == c = ChSpace \/ c = ChTab

RECURSIVE countBackslashes(_, _)
\* the number of consecutive backslashes of a from p on
countBackslashes(a, p) ==
    IF p < Len(a) /\ At(a, p) = ChBackslash THEN 1 + countBackslashes(a, p + 1) ELSE 0

Backslashes(n) == [i \in 1..n |-> ChBackslash]

\* the status of a command line that ends inside an open quote
unterminatedQuoteOk(r) == okret(r)

unterminatedQuoteWin(r) == quoteerr

\* the backslashes put out for a run of n that stands before a quote, with
\* none taken away
insertedBackslashesAll(n, isQuote) == n

\* the backslashes put out for a run of n: bslashes >>= 1 when the run
\* stands before a double quote
insertedBackslashes(n, isQuote) == IF isQuote THEN n \div 2 ELSE n

\* the quoting state after an unescaped quote, with a doubled quote leaving
\* the quoted state as it is
quotingAfterDoubledStays(inquote0, doubled) == IF doubled THEN inquote0 ELSE ~inquote0

\* the quoting state after an unescaped quote: inquote = false after a
\* closing or a doubled quote, inquote = true after an opening one
quotingAfter(inquote0, doubled) == ~inquote0

RECURSIVE WinSkip(_, _, _), WinArg(_, _, _, _, _)

\* one round of the inner forever of doSplitArgsWin
WinArg(a, p0, r, arg, inquote0) ==
    LET n == countBackslashes(a, p0)
        p == p0 + n
        isQuote == p < Len(a) /\ At(a, p) = ChDQuote
        unescaped == isQuote /\ n % 2 = 0
        doubled == unescaped /\ inquote0 /\ p + 1 < Len(a) /\ At(a, p + 1) = ChDQuote
        copy == ~unescaped \/ doubled
        inquote == IF unescaped THEN quotingAfter(inquote0, doubled) ELSE inquote0
        p1 == IF doubled THEN p + 1 ELSE p
        arg1 == arg \o Backslashes(insertedBackslashes(n, isQuote))
    IN  IF p1 = Len(a) \/ (~inquote /\ isWhiteSpaceWin(At(a, p1)))
        THEN IF inquote THEN unterminatedQuoteWin(Append(r, arg1))
             ELSE WinSkip(a, p1, Append(r, arg1))
        ELSE WinArg(a, p1 + 1, r, IF copy THEN Append(arg1, At(a, p1)) ELSE arg1, inquote)

\* the outer forever: skip white space, then read one argument
WinSkip(a, p, r) ==
    IF p = Len(a) THEN okret(r)
    ELSE IF isWhiteSpaceWin(At(a, p)) THEN WinSkip(a, p + 1, r)
    ELSE WinArg(a, p, r, <<>>, FALSE)

doSplitArgsWin(a) == WinSkip(a, 0, <<>>)

\* the status prepareArgsWin's outcome is tested through: *err, where err is
\* the caller's pointer, or &perr when the caller passed none
testedStatus(perr, errGiven, prior) == IF errGiven THEN prior ELSE perr

\* splitArgsWin: the list returned and the caller's status variable after the
\* call; prior is what that variable held before it (errGiven: err != NULL)
splitArgsWin(a, ab, errGiven, prior, e, pwd, host) ==
    IF ab
    THEN LET prep == prepareArgsWin(a, e, pwd, host)
         IN  IF testedStatus(prep.err, errGiven, prior) # "SplitOk"
             THEN [err |-> prior, ret |-> <<>>]
             ELSE doSplitArgsWin(prep.args)
    ELSE doSplitArgsWin(IF e.null THEN a ELSE envExpandWin(a, e, pwd, host))

iqmSpecialWin ==
    <<255, 255, 255, 255, 69, 19, 0, 120, 0, 0, 0, 64, 0, 0, 0, 16>>

\* a table without the space
isSpecialCharWinNoSpace(c) == InTable(iqmSpecialWin, c) /\ c # ChSpace

isSpecialCharWin(c) == InTable(iqmSpecialWin, c)

hasSpecialCharsWin(arg) == \E x \in 1..Len(arg) : isSpecialCharWin(arg[x])

RECURSIVE escapeQuotesWin(_, _)
\* ret.replace(QRegularExpression("(\\\\*)\""), "\"\\1\\1\\^\"\""), from p on
escapeQuotesWin(a, p) ==
    IF p >= Len(a) THEN <<>>
    ELSE LET n == countBackslashes(a, p)
         IN  IF p + n < Len(a) /\ At(a, p + n) = ChDQuote
             THEN <<ChDQuote>> \o Backslashes(2 * n)
                  \o <<ChBackslash, ChCaret, ChDQuote, ChDQuote>>
                  \o escapeQuotesWin(a, p + n + 1)
             ELSE IF n > 0 THEN Backslashes(n) \o escapeQuotesWin(a, p + n)
             ELSE <<At(a, p)>> \o escapeQuotesWin(a, p + 1)

\* the closing quote put after the trailing backslashes
closingQuoteAtEnd(s, i) == i

RECURSIVE closingQuotePos(_, _)
\* while (i > 0 && ret.at(i - 1) == '\\') --i: where the closing quote goes
closingQuotePos(s, i) ==
    IF i > 0 /\ At(s, i - 1) = ChBackslash THEN closingQuotePos(s, i - 1) ELSE i

quoteArgWin(arg) ==
    IF arg = <<>> THEN <<ChDQuote, ChDQuote>>
    ELSE IF hasSpecialCharsWin(arg)
    THEN LET s == escapeQuotesWin(arg, 0)
             i == closingQuotePos(s, Len(s))
         IN  <<ChDQuote>> \o SubSeq(s, 1, i) \o <<ChDQuote>> \o SubSeq(s, i + 1, Len(s))
    ELSE arg


(***************************************************************************)
(* The public entry points, which dispatch on the OsType.                  *)
(***************************************************************************)
\* ProcessArgs::splitArgs: the list returned and the status the call leaves
\* in the caller's variable (prior when nothing is written to it)
splitArgs(a, osType, ab, errGiven, prior, e, pwd, host) ==
    LET res == IF osType = "win"
               THEN splitArgsWin(a, ab, errGiven, prior, e, pwd, host)
               ELSE splitArgsUnix(a, ab, e, pwd)
    IN  [ret |-> res.ret, err |-> IF errGiven THEN res.err ELSE prior]

\* ProcessArgs::quoteArg
quoteArg(arg, osType) ==
    IF osType = "win" THEN quoteArgWin(arg) ELSE quoteArgUnix(arg)

\* ProcessArgs::addArg
addArg(a, arg, osType) ==
    (IF a # <<>> THEN Append(a, ChSpace) ELSE a) \o quoteArg(arg, osType)

RECURSIVE joinFrom(_, _, _, _)
\* the loop of ProcessArgs::joinArgs over the list l from index i (1-based)
joinFrom(l, i, acc, osType) ==
    IF i > Len(l) THEN acc ELSE joinFrom(l, i + 1, addArg(acc, l[i], osType), osType)

joinArgs(l, osType) == joinFrom(l, 1, <<>>, osType)

(***************************************************************************)
(* The client: it builds an argument list and joins it, or types a command *)
(* line, and then calls splitArgs.                                         *)
(***************************************************************************)
RECURSIVE totalLen(_)
totalLen(l) == IF l = <<>> THEN 0 ELSE Len(Head(l)) + totalLen(Tail(l))

\* a QString or ProcessArgs the caller has not set
Unset == [set |-> FALSE]

\* ProcessArgs::createUnixArgs, ProcessArgs::createWindowsArgs
createUnixArgs(l) == [set |-> TRUE, isWindows |-> FALSE, unixArgs |-> l, windowsArgs |-> <<>>]
createWindowsArgs(a) == [set |-> TRUE, isWindows |-> TRUE, unixArgs |-> <<>>, windowsArgs |-> a]

\* before any prepareCommand call
InitPrep ==
    /\ command = <<>>
    /\ hostOs = "unix"
    /\ shell = [SHELL |-> Unset, COMSPEC |-> Unset]
    /\ outCmd = Unset
    /\ outArgs = Unset
    /\ prepOk = FALSE

\* before any expandMacros call
InitMacro ==
    /\ expander = <<>>
    /\ expanded = <<>>
    /\ mxOk = FALSE

\* ArgIterator(QString *str, OsType osType): the cursor at the start
ArgIterator(str) ==
    [m_str |-> str, m_pos |-> 0, m_prev |-> -1, m_simple |-> TRUE, m_value |-> <<>>]

\* no iterator walk yet
InitIter ==
    /\ iter = ArgIterator(<<>>)
    /\ walk = <<>>
    /\ deleted = 0
    /\ appended = <<>>

\* the QTextCodecs of the model: UTF-8 and ISO 8859-1
Codecs == {"utf8", "latin1"}

\* a ChannelBuffer as constructed: no codec, no decoder state, no callback.
\* codec is "null" or one of Codecs; codecState is the bytes of an
\* unfinished character the decoder keeps between calls
ChannelBuffer ==
    [rawData |-> <<>>, incompleteLineBuffer |-> <<>>, codec |-> "null",
     codecState |-> <<>>, rawDataPos |-> 0, outputCallback |-> FALSE]

\* the two channel buffers of a QtcProcessPrivate as constructed
InitChan ==
    /\ m_stdOut = ChannelBuffer
    /\ m_stdErr = ChannelBuffer
    /\ emitted = [out |-> <<>>, err |-> <<>>]
    /\ decoded = [out |-> <<>>, err |-> <<>>]
    /\ chunks = [out |-> <<>>, err |-> <<>>]
    /\ bulk = [out |-> <<>>, err |-> <<>>]

defaultMaxHangTimerCount == 10

\* SynchronousProcessResponse::clear(); the codec is left as it is
clear(r) ==
    [r EXCEPT !.result = "StartFailed", !.exitCode = -1, !.rawStdOut = <<>>,
              !.rawStdErr = <<>>]

\* a child that is not there
NoChild ==
    [state |-> "NotRunning", talks |-> FALSE, selfExit |-> FALSE, onTerminate |-> "die",
     slowKill |-> FALSE, termSent |-> FALSE, killSent |-> FALSE, error |-> "UnknownError"]

\* nothing happened in a run yet.  runs: the runs and the starts by the
\* client begun; calls: the calls of the setters that changed something;
\* mode: "run", "runBlocking" or "start" (the client called start() itself),
\* and "runDevice", "runBlockingDevice" or "startDevice" for a command that
\* needs a device; started: the child started; ticks: the timer ticks;
\* client: the calls of terminate(), kill() and stopProcess() by the client;
\* adopted: the run found the child of an earlier call running; gui:
\* askToKill can show its message box in this run (the build has
\* QT_GUI_LIB and run() was called on the thread of the application),
\* left TRUE in a run with the message box disabled, which never calls it;
\* silent: the ticks since the start of the run, the last data on a channel
\* or the last declined message box; terminates, kills: the calls of
\* terminate() and kill(); asked, declined: the message boxes shown and
\* declined; latched: the result was set to Hang; escalations: silent and
\* m_maxHangTimerCount at every tick that found the counter over the limit;
\* exitCode, exitStatus: of the child when it was gone; diedLatched: it was
\* gone after Hang was latched; read: the bytes read from the channels;
\* returned: <<m_result>> as the run returned it; leftRunning: state() was
\* not NotRunning then
NoHist ==
    [runs |-> 0, calls |-> 0, mode |-> "none", started |-> FALSE, ticks |-> 0, silent |-> 0,
     client |-> 0, adopted |-> FALSE, gui |-> TRUE,
     terminates |-> 0, kills |-> 0, asked |-> 0, declined |-> 0, latched |-> FALSE,
     escalations |-> <<>>, exitCode |-> 0, exitStatus |-> "NormalExit",
     diedLatched |-> FALSE, read |-> [out |-> <<>>, err |-> <<>>],
     returned |-> <<>>, leftRunning |-> FALSE, waitMs |-> <<>>]

\* the program stands in no wait
NoWait == [fn |-> "none", wait |-> "none"]

\* the program is gone: it made a call through a null pointer
Aborted == [fn |-> "aborted", wait |-> "none"]

\* a SynchronousProcess as constructed (the member initializers of
\* QtcProcessPrivate; the timer of interval 1000 not started), locale being
\* QTextCodec::codecForLocale(), the codec m_codec and the response start
\* with
InitProc(locale) ==
    /\ priv = [m_result |-> [result |-> "StartFailed", exitCode |-> -1, codec |-> locale,
                            rawStdOut |-> <<>>, rawStdErr |-> <<>>],
            m_codec |-> locale, m_hangTimerCount |-> 0,
            m_maxHangTimerCount |-> defaultMaxHangTimerCount, m_startFailure |-> FALSE,
            m_timeOutMessageBoxEnabled |-> FALSE, m_waitingForUser |-> FALSE,
            m_synchronous |-> FALSE, m_exitCodeInterpreter |-> "default",
            m_timer |-> FALSE, m_eventLoop |-> "idle"]
    /\ child = NoChild
    /\ hist = NoHist
    /\ at = NoWait
    /\ codecForLocale = locale

\* no readDataFromProcess call was made.  pc: "idle", "waiting" (in the
\* loop, before the next waitForFinished), "asking" (the message box of
\* askToKill is open) or "returned"; state: state() of
\* the process; stdOut, stdErr: the byte arrays of the caller; finished and
\* hasData: the variables of the function; result: what it returned; waits:
\* the waits made; sawData, sawExit: bytes were read after the last wait,
\* the process was gone after it; carried: hasData was true when the last
\* pass began; asked: "no" (askToKill was not called in the last pass),
\* "nobox" (it returned true without a message box), "box" (its message box
\* is open), "kill" (the user agreed to kill) or "wait" (the user declined)
NoReading ==
    [pc |-> "idle", state |-> "Running", timeoutS |-> 0, showTimeOutMessageBox |-> FALSE,
     stdOut |-> <<>>, stdErr |-> <<>>, finished |-> FALSE, hasData |-> FALSE,
     result |-> FALSE, waits |-> 0, sawData |-> FALSE, sawExit |-> FALSE,
     carried |-> FALSE, asked |-> "no"]

InitRead == reading = NoReading

InitWith(osType, locale) ==
    /\ os = osType
    /\ argList = <<>>
    /\ args = <<>>
    /\ quoted = FALSE
    /\ abortOnMeta = FALSE
    /\ env = NullEnv
    /\ errIn = "SplitOk"
    /\ err = "SplitOk"
    /\ ret = <<>>
    /\ pc = "input"
    /\ InitPrep
    /\ InitMacro
    /\ InitIter
    /\ InitChan
    /\ InitProc(locale)
    /\ InitRead

\* the same in a locale whose codec is UTF-8
InitFor(osType) == InitWith(osType, "utf8")

\* the client starts the next argument of the list
NewArg(maxArgs) ==
    /\ pc = "input"
    /\ args = <<>>
    /\ Len(argList) < maxArgs
    /\ argList' = Append(argList, <<>>)
    /\ UNCHANGED <<os, args, quoted, abortOnMeta, env, errIn, err, ret, pc>>
    /\ UNCHANGED notSplit

\* the client extends the last argument of the list by the character c
TypeArgChar(c, maxChars) ==
    /\ pc = "input"
    /\ argList # <<>>
    /\ totalLen(argList) < maxChars
    /\ argList' = [argList EXCEPT ![Len(argList)] = Append(@, c)]
    /\ UNCHANGED <<os, args, quoted, abortOnMeta, env, errIn, err, ret, pc>>
    /\ UNCHANGED notSplit

\* args = ProcessArgs::joinArgs(argList, os)
JoinArgs ==
    /\ pc = "input"
    /\ args = <<>>
    /\ args' = joinArgs(argList, os)
    /\ quoted' = TRUE
    /\ pc' = "joined"
    /\ UNCHANGED <<os, argList, abortOnMeta, env, errIn, err, ret>>
    /\ UNCHANGED notSplit

\* the client extends the command line by the text tok
TypeCmd(tok, maxLen) ==
    /\ pc = "input"
    /\ argList = <<>>
    /\ Len(args) + Len(tok) <= maxLen
    /\ args' = args \o tok
    /\ UNCHANGED <<os, argList, quoted, abortOnMeta, env, errIn, err, ret, pc>>
    /\ UNCHANGED notSplit

\* SplitError err = prior (or uninitialized);
\* ret = ProcessArgs::splitArgs(args, os, ab, &err, e, pwd)
SplitArgs(ab, prior, e) ==
    /\ pc = "joined" \/ (pc = "input" /\ argList = <<>>)
    /\ LET res == splitArgs(args, os, ab, TRUE, prior, e, <<>>, hostOs)
       IN  /\ ret' = res.ret
           /\ err' = res.err
    /\ abortOnMeta' = ab
    /\ env' = e
    /\ errIn' = prior
    /\ pc' = "split"
    /\ UNCHANGED <<os, argList, args, quoted>>
    /\ UNCHANGED notSplit


(***************************************************************************)
(* Unix round trip: a list is built, joined and split again.               *)
(***************************************************************************)
\* a ' \ space $ " ~ and U+00A0 NO-BREAK SPACE, a Separator_Space, for which
\* QChar::isSpace is true
RtChars == {97, ChSQuote, ChBackslash, ChSpace, ChDollar, ChDQuote, ChTilde, 160}
RtMaxArgs == 2
RtMaxChars == 3

\* the variable V
VarV == <<86>>
\* the variable U, which no environment of the model sets
VarU == <<85>>

\* V = "x y"
RtEnv == MkEnv({<<VarV, <<120, 32, 121>>>>})

InitUnixRT == InitFor("unix")

NextUnixRT ==
    \/ NewArg(RtMaxArgs)
    \/ \E c \in RtChars : TypeArgChar(c, RtMaxChars)
    \/ JoinArgs
    \/ \E ab \in BOOLEAN, e \in {NullEnv, RtEnv}, prior \in SplitError :
           SplitArgs(ab, prior, e)

SpecUnixRT == InitUnixRT /\ [][NextUnixRT]_vars

\* C1: on Unix, splitting the joined list gives the list back, with status
\* Ok, whatever abortOnMeta and the environment are.
C1_RoundTripUnix ==
    (pc = "split" /\ quoted) => (ret = argList /\ err = "SplitOk")

\* the same for the lists that hold no white space above U+007F
C1_RoundTripUnixAscii ==
    (pc = "split" /\ quoted
        /\ \A i \in 1..Len(argList) : \A j \in 1..Len(argList[i]) : argList[i][j] < 128)
    => (ret = argList /\ err = "SplitOk")


(***************************************************************************)
(* Windows round trip: one argument is quoted and split again.             *)
(***************************************************************************)
\* a space " \ ^ % @ &
WinRtChars == {97, ChSpace, ChDQuote, ChBackslash, ChCaret, ChPercent, ChAt, 38}
WinRtMaxArgs == 1
WinRtMaxChars == 3

\* the variable A
VarA == <<65>>

\* A = "b c"
WinEnv == MkEnv({<<VarA, <<98, 32, 99>>>>})

InitWinRT == InitFor("win")

NextWinRT ==
    \/ NewArg(WinRtMaxArgs)
    \/ \E c \in WinRtChars : TypeArgChar(c, WinRtMaxChars)
    \/ JoinArgs
    \/ \E ab \in BOOLEAN, e \in {NullEnv, WinEnv}, prior \in SplitError :
           SplitArgs(ab, prior, e)

SpecWinRT == InitWinRT /\ [][NextWinRT]_vars

\* the string holds the character c
Holds(s, c) == \E i \in 1..Len(s) : s[i] = c

\* the number of backslashes the string ends in
RECURSIVE TrailingBackslashes(_)
TrailingBackslashes(s) ==
    IF s # <<>> /\ s[Len(s)] = ChBackslash
    THEN 1 + TrailingBackslashes(SubSeq(s, 1, Len(s) - 1))
    ELSE 0

\* C2 as stated: on Windows, without the cmd layer and without an
\* environment, splitting a quoted argument gives the argument back, also
\* when it holds double quotes.
C2_RoundTripWinAnyString ==
    (pc = "split" /\ quoted /\ ~abortOnMeta /\ env.null /\ Len(argList) = 1)
    => (ret = argList /\ err = "SplitOk")

\* C2 amended: on Windows, without the cmd layer and without an
\* environment, splitting the joined list gives the list back, with status
\* Ok, when no argument holds a double quote.
C2_RoundTripWinNoQuote ==
    (pc = "split" /\ quoted /\ ~abortOnMeta /\ env.null
        /\ \A i \in 1..Len(argList) : ~Holds(argList[i], ChDQuote))
    => (ret = argList /\ err = "SplitOk")

\* an argument that needs quoting (it holds a space and a caret) came back
C2_Witness ==
    /\ pc = "split" /\ quoted /\ ~abortOnMeta /\ env.null
    /\ Len(argList) = 1
    /\ Holds(argList[1], ChSpace) /\ Holds(argList[1], ChCaret)
    /\ args[1] = ChDQuote
    /\ ret = argList

\* C3: on Windows, with the cmd layer, splitting a quoted argument gives the
\* argument back with status Ok, whatever characters it holds (stated for a
\* caller whose status variable holds SplitOk before the call).
C3_QuoteWinInjectionSafe ==
    (pc = "split" /\ quoted /\ abortOnMeta /\ Len(argList) = 1 /\ errIn = "SplitOk")
    => (ret = argList /\ err = "SplitOk")

\* C4: on Windows, an argument without double quotes that ends in
\* backslashes comes back from quoteArg and the C runtime's split, and when
\* it is quoted the closing quote stands before the trailing backslashes.
C4_TrailingBackslashWin ==
    (pc = "split" /\ quoted /\ ~abortOnMeta /\ env.null /\ Len(argList) = 1
        /\ ~Holds(argList[1], ChDQuote) /\ TrailingBackslashes(argList[1]) > 0)
    => LET s == argList[1]
           n == TrailingBackslashes(s)
           stem == SubSeq(s, 1, Len(s) - n)
       IN  /\ ret = <<s>>
           /\ err = "SplitOk"
           /\ hasSpecialCharsWin(s)
                => args = <<ChDQuote>> \o stem \o <<ChDQuote>> \o Backslashes(n)

\* a quoted argument with a space and two trailing backslashes came back
C4_Witness ==
    /\ pc = "split" /\ quoted /\ ~abortOnMeta /\ env.null
    /\ argList = << <<ChSpace, ChBackslash, ChBackslash>> >>
    /\ args = <<ChDQuote, ChSpace, ChDQuote, ChBackslash, ChBackslash>>
    /\ ret = argList


(***************************************************************************)
(* Windows: a command line is typed and split.                             *)
(***************************************************************************)
\* a space " \ | ^ %
WinChars == {97, ChSpace, ChDQuote, ChBackslash, 124, ChCaret, ChPercent}
WinMaxLen == 4

InitWin == InitFor("win")

NextWin ==
    \/ \E c \in WinChars : TypeCmd(<<c>>, WinMaxLen)
    \/ \E ab \in BOOLEAN, e \in {NullEnv, WinEnv}, prior \in SplitError :
           SplitArgs(ab, prior, e)

SpecWin == InitWin /\ [][NextWin]_vars

\* the first character of s that is neither the letter a nor a space, or 0
FirstSpecial(s) ==
    LET I == {i \in 1..Len(s) : s[i] # 97 /\ s[i] # ChSpace}
    IN  IF I = {} THEN 0 ELSE s[Min(I)]

\* C7: with abortOnMeta, a command line whose first character other than
\* letters and spaces is a metacharacter of the platform (here | and &, which
\* both platforms' sets hold) yields an empty list and leaves FoundMeta in
\* the caller's status variable.
C7_FoundMetaReported ==
    (pc = "split" /\ ~quoted /\ abortOnMeta /\ FirstSpecial(args) \in {124, 38})
    => (err = "FoundMeta" /\ ret = <<>>)

\* exactly one double quote, not preceded by a backslash
OneBareQuote(s) ==
    /\ Cardinality({i \in 1..Len(s) : s[i] = ChDQuote}) = 1
    /\ \A i \in 2..Len(s) : s[i] = ChDQuote => s[i - 1] # ChBackslash

\* C10 as stated: the Windows split without the cmd layer never reports
\* BadQuoting, and a command line with one, unterminated, double quote is
\* split with status Ok.
C10_UnterminatedQuoteToleratedWin ==
    (pc = "split" /\ ~quoted /\ ~abortOnMeta /\ env.null)
    => /\ err # "BadQuoting"
       /\ OneBareQuote(args) => (err = "SplitOk" /\ ret # <<>>)

\* C10 amended: the Windows split without the cmd layer reports BadQuoting
\* and returns an empty list for a command line with one, unterminated,
\* double quote; it reports BadQuoting only with an empty list and only for
\* a command line that holds a double quote, and never FoundMeta.
C10_UnterminatedQuoteBadQuotingWin ==
    (pc = "split" /\ ~quoted /\ ~abortOnMeta /\ env.null)
    => /\ OneBareQuote(args) => (err = "BadQuoting" /\ ret = <<>>)
       /\ err = "BadQuoting" => (ret = <<>> /\ Holds(args, ChDQuote))
       /\ err # "FoundMeta"

\* the command line a "a was split: BadQuoting, no words
C10_Witness ==
    /\ pc = "split" /\ ~quoted /\ ~abortOnMeta /\ env.null
    /\ args = <<97, ChSpace, ChDQuote, 97>>
    /\ err = "BadQuoting"
    /\ ret = <<>>


(***************************************************************************)
(* Unix with an environment: a command line with references to the         *)
(* variable V is typed and split.                                          *)
(***************************************************************************)
\* $V and ${V}
RefBare == <<ChDollar>> \o VarV
RefBraced == <<ChDollar, ChLBrace>> \o VarV \o <<ChRBrace>>

\* a space " $V ${V}
EnvToks == {<<97>>, <<ChSpace>>, <<ChDQuote>>, RefBare, RefBraced}
EnvMaxLen == 7

\* the values of V: "x y", "", " x<tab>", "<newline>\""
EnvVals == {<<120, 32, 121>>, <<>>, <<32, 120, 9>>, <<10, 34>>}

InitUnixEnv == InitFor("unix")

NextUnixEnv ==
    \/ \E tok \in EnvToks : TypeCmd(tok, EnvMaxLen)
    \/ \E ab \in BOOLEAN, prior \in SplitError :
           \/ SplitArgs(ab, prior, NullEnv)
           \/ \E v \in EnvVals : SplitArgs(ab, prior, MkEnv({<<VarV, v>>}))

SpecUnixEnv == InitUnixEnv /\ [][NextUnixEnv]_vars

\* only the letter a and spaces
IsPlainSp(s) == \A i \in 1..Len(s) : s[i] = 97 \/ s[i] = ChSpace

\* the positions of the character c in s
Positions(s, c) == {i \in 1..Len(s) : s[i] = c}

RECURSIVE FieldsFrom(_, _, _)
\* the maximal runs of characters other than space, tab and newline
FieldsFrom(s, i, cur) ==
    IF i > Len(s) THEN (IF cur = <<>> THEN <<>> ELSE <<cur>>)
    ELSE IF s[i] \in {9, 10, 32}
    THEN (IF cur = <<>> THEN <<>> ELSE <<cur>>) \o FieldsFrom(s, i + 1, <<>>)
    ELSE FieldsFrom(s, i + 1, Append(cur, s[i]))

Fields(s) == FieldsFrom(s, 1, <<>>)

\* the length of the reference whose $ is at position d of s
RefLen(s, d) == IF d < Len(s) /\ s[d + 1] = ChLBrace THEN 4 ELSE 2

\* the unquoted shape: plain text, one reference, plain text (after $V the
\* end or a space)
UnquotedRefShape(s) ==
    /\ Cardinality(Positions(s, ChDollar)) = 1
    /\ Positions(s, ChDQuote) = {}
    /\ LET d == Min(Positions(s, ChDollar))
       IN  RefLen(s, d) = 2 => (d + 2 > Len(s) \/ s[d + 2] = ChSpace)

\* C5: with an environment, an unquoted $V or ${V} amid plain text stands
\* for the value of V split on space, tab and newline: the words are the
\* fields of the text with the value in place of the reference.
C5_UnquotedValueIsSplit ==
    (pc = "split" /\ ~env.null /\ UnquotedRefShape(args))
    => LET d == Min(Positions(args, ChDollar))
           text == SubSeq(args, 1, d - 1) \o expandedValueForKey(env, VarV)
                   \o SubSeq(args, d + RefLen(args, d), Len(args))
       IN  ret = Fields(text) /\ err = "SplitOk"

\* echo $FOO with FOO = "x y", as a $V: three words
C5_Witness ==
    /\ pc = "split"
    /\ args = <<97, ChSpace>> \o RefBare
    /\ expandedValueForKey(env, VarV) = <<120, 32, 121>>
    /\ ret = << <<97>>, <<120>>, <<121>> >>

\* the double-quoted shape: plain text, a quoted run of plain text with one
\* reference (after $V the closing quote or a space), plain text
QuotedRefShape(s) ==
    /\ Cardinality(Positions(s, ChDollar)) = 1
    /\ Cardinality(Positions(s, ChDQuote)) = 2
    /\ LET d == Min(Positions(s, ChDollar))
           q1 == Min(Positions(s, ChDQuote))
           q2 == Min(Positions(s, ChDQuote) \ {q1})
       IN  /\ q1 < d /\ d < q2
           /\ RefLen(s, d) = 2 => s[d + 2] \in {ChSpace, ChDQuote}

\* the words of lead "inner" post, for plain lead and post: the quoted run
\* joins the word that ends before it and the word that starts after it
WordsAround(lead, inner, post) ==
    LET lw == Fields(lead)
        pw == Fields(post)
        glueL == lead # <<>> /\ lead[Len(lead)] # ChSpace
        glueR == post # <<>> /\ post[1] # ChSpace
    IN  (IF glueL THEN SubSeq(lw, 1, Len(lw) - 1) ELSE lw)
        \o << (IF glueL THEN lw[Len(lw)] ELSE <<>>) \o inner
              \o (IF glueR THEN pw[1] ELSE <<>>) >>
        \o (IF glueR THEN Tail(pw) ELSE pw)

\* C6: with an environment, a $V or ${V} inside double quotes puts the
\* value of V into the word as it is: the quoted run is one piece of one
\* word, and there are as many words as with the letter a for the reference.
C6_QuotedValueIsVerbatim ==
    (pc = "split" /\ ~env.null /\ QuotedRefShape(args))
    => LET d == Min(Positions(args, ChDollar))
           q1 == Min(Positions(args, ChDQuote))
           q2 == Min(Positions(args, ChDQuote) \ {q1})
           n == RefLen(args, d)
           inner == SubSeq(args, q1 + 1, d - 1) \o expandedValueForKey(env, VarV)
                    \o SubSeq(args, d + n, q2 - 1)
           letter == SubSeq(args, 1, d - 1) \o <<97>> \o SubSeq(args, d + n, Len(args))
       IN  /\ err = "SplitOk"
           /\ ret = WordsAround(SubSeq(args, 1, q1 - 1), inner,
                                SubSeq(args, q2 + 1, Len(args)))
           /\ Len(ret) = Len(splitArgsUnix(letter, abortOnMeta, env, <<>>).ret)

\* echo "$FOO" with FOO = "x y", as a "$V": two words
C6_Witness ==
    /\ pc = "split"
    /\ args = <<97, ChSpace, ChDQuote>> \o RefBare \o <<ChDQuote>>
    /\ expandedValueForKey(env, VarV) = <<120, 32, 121>>
    /\ ret = << <<97>>, <<120, 32, 121>> >>


(***************************************************************************)
(* Unix metacharacters and quoting: a command line is typed and split.     *)
(***************************************************************************)
\* a space ' " \ | ! ~ $ and the control character U+0001
MetaChars == {97, ChSpace, ChSQuote, ChDQuote, ChBackslash, 124, 33, ChTilde, ChDollar, 1}
MetaMaxLen == 4

\* V = "x y"
MetaEnv == MkEnv({<<VarV, <<120, 32, 121>>>>})

InitUnixMeta == InitFor("unix")

NextUnixMeta ==
    \/ \E c \in MetaChars : TypeCmd(<<c>>, MetaMaxLen)
    \/ \E ab \in BOOLEAN, e \in {NullEnv, MetaEnv}, prior \in SplitError :
           SplitArgs(ab, prior, e)

SpecUnixMeta == InitUnixMeta /\ [][NextUnixMeta]_vars

\* the position of the first character of s other than the letter a and the
\* space, or 0
FirstSpecialPos(s) ==
    LET I == {i \in 1..Len(s) : s[i] # 97 /\ s[i] # ChSpace}
    IN  IF I = {} THEN 0 ELSE Min(I)

\* position i of s starts a word
StartsWord(s, i) == i = 1 \/ s[i - 1] = ChSpace

\* the ~ at position i of s stands for the home directory
TildeExpands(s, i) ==
    /\ s[i] = ChTilde
    /\ StartsWord(s, i)
    /\ (i = Len(s) \/ s[i + 1] = ChSpace \/ s[i + 1] = ChSlash)

\* the lexer handles the character at position i of s itself: quoting, white
\* space, a variable reference when there is an environment, a ~ it expands
HandledByLexer(s, i, e) ==
    \/ s[i] \in {ChBackslash, ChSQuote, ChDQuote}
    \/ isSpace(s[i])
    \/ (s[i] = ChDollar /\ ~e.null)
    \/ TildeExpands(s, i)

\* the 'special' set of the specification: \ ' " $ ` < > | ; & ( ) { } * ? #
\* ! ~ [ ] and the control characters
SpecSpecial(c) == c < 32 \/ c \in {92, 39, 34, 36, 96, 60, 62, 124, 59, 38, 40, 41,
                                   123, 125, 42, 63, 35, 33, 126, 91, 93}

\* the set the lexer tests with abortOnMeta: \ ' " $ ` < > | ; & ( ) { } * ? #
\* [ ]
LexerMeta(c) == c \in {92, 39, 34, 36, 96, 60, 62, 124, 59, 38, 40, 41,
                       123, 125, 42, 63, 35, 91, 93}

\* C8 as stated: with abortOnMeta, when the first character other than
\* letters and spaces is of the 'special' set and not handled by the lexer,
\* the status is FoundMeta.
C8_SpecialYieldsFoundMeta ==
    (pc = "split" /\ abortOnMeta /\ FirstSpecialPos(args) > 0
        /\ SpecSpecial(args[FirstSpecialPos(args)])
        /\ ~HandledByLexer(args, FirstSpecialPos(args), env))
    => (err = "FoundMeta" /\ ret = <<>>)

\* C8 amended: with abortOnMeta, when the first character other than
\* letters and spaces is of the lexer's meta set (which lacks ! ~ and the
\* control characters) and not handled by the lexer, or is a ~ that starts a
\* word and is not expanded, the status is FoundMeta; a command line of
\* letters, spaces, !, control characters and ~ inside words is split on its
\* spaces with these characters kept.  Without abortOnMeta the status is
\* never FoundMeta and a word of unhandled characters is copied as it is.
C8_MetaYieldsFoundMeta ==
    LET i == FirstSpecialPos(args)
    IN  pc = "split" =>
        /\ (abortOnMeta /\ i > 0 /\ ~HandledByLexer(args, i, env)
              /\ (LexerMeta(args[i]) \/ (args[i] = ChTilde /\ StartsWord(args, i))))
           => (err = "FoundMeta" /\ ret = <<>>)
        /\ (abortOnMeta
              /\ \A j \in 1..Len(args) :
                    \/ args[j] \in {97, ChSpace, 33, 1}
                    \/ (args[j] = ChTilde /\ ~StartsWord(args, j)))
           => (err = "SplitOk" /\ ret = Fields(args))
        /\ ~abortOnMeta => err # "FoundMeta"
        /\ (~abortOnMeta /\ args # <<>>
              /\ \A j \in 1..Len(args) : ~HandledByLexer(args, j, env))
           => (err = "SplitOk" /\ ret = <<args>>)

\* with abortOnMeta and no environment, a| was refused
C8_Witness ==
    /\ pc = "split" /\ abortOnMeta /\ env.null
    /\ args = <<97, 124>>
    /\ err = "FoundMeta" /\ ret = <<>>

RECURSIVE QuoteState(_, _, _)
\* the shell's quoting state after s: "basic", "single", "double", and
\* "escape" / "descape" after a backslash outside / inside double quotes
QuoteState(s, i, st) ==
    IF i > Len(s) THEN st
    ELSE LET c == s[i]
             nxt == CASE st = "basic" ->
                         (IF c = ChSQuote THEN "single"
                          ELSE IF c = ChDQuote THEN "double"
                          ELSE IF c = ChBackslash THEN "escape" ELSE "basic")
                    [] st = "single" -> (IF c = ChSQuote THEN "basic" ELSE "single")
                    [] st = "double" ->
                         (IF c = ChDQuote THEN "basic"
                          ELSE IF c = ChBackslash THEN "descape" ELSE "double")
                    [] st = "escape" -> "basic"
                    [] OTHER -> "double"
         IN  QuoteState(s, i + 1, nxt)

\* only letters, white space and the quoting characters ' " \
OnlyQuoting(s) ==
    \A i \in 1..Len(s) : s[i] \in {97, ChSpace, ChSQuote, ChDQuote, ChBackslash}

\* C9: a command line that ends inside single quotes, inside double quotes
\* or with an unquoted backslash is never split into words: the list is
\* empty and the status is not Ok; it is BadQuoting without abortOnMeta,
\* and with abortOnMeta when the line holds only letters, spaces and the
\* quoting characters (so that no metacharacter comes first).
C9_UnterminatedIsBadQuoting ==
    (pc = "split" /\ QuoteState(args, 1, "basic") # "basic")
    => /\ ret = <<>>
       /\ err # "SplitOk"
       /\ (~abortOnMeta \/ OnlyQuoting(args)) => err = "BadQuoting"

\* a "a was split with abortOnMeta: BadQuoting, no words
C9_Witness ==
    /\ pc = "split" /\ abortOnMeta
    /\ args = <<97, ChSpace, ChDQuote, 97>>
    /\ err = "BadQuoting" /\ ret = <<>>


(***************************************************************************)
(* Unix with an environment that does not set U: a command line with       *)
(* references to U is typed and split.                                     *)
(***************************************************************************)
\* $U and ${U}
RefUnsetBare == <<ChDollar>> \o VarU
RefUnsetBraced == <<ChDollar, ChLBrace>> \o VarU \o <<ChRBrace>>

\* a space " $U ${U}
UnsetToks == {<<97>>, <<ChSpace>>, <<ChDQuote>>, RefUnsetBare, RefUnsetBraced}
UnsetMaxLen == 7

\* an environment with no variable at all
EmptyEnv == MkEnv({})

InitUnixUnset == InitFor("unix")

NextUnixUnset ==
    \/ \E tok \in UnsetToks : TypeCmd(tok, UnsetMaxLen)
    \/ \E ab \in BOOLEAN, e \in {NullEnv, EmptyEnv, MetaEnv}, prior \in SplitError :
           SplitArgs(ab, prior, e)

SpecUnixUnset == InitUnixUnset /\ [][NextUnixUnset]_vars

RECURSIVE StripRefs(_, _, _)
\* s without its references: a $ with the name after it (letters, digits
\* and _), or ${ up to the next }; inName: a $ was met and its name goes on
StripRefs(s, i, inName) ==
    IF i > Len(s) THEN <<>>
    ELSE IF s[i] = ChDollar
    THEN IF i < Len(s) /\ s[i + 1] = ChLBrace
         THEN LET close == Min({j \in (i + 2)..(Len(s) + 1) :
                                    j = Len(s) + 1 \/ s[j] = ChRBrace})
              IN  StripRefs(s, close + 1, FALSE)
         ELSE StripRefs(s, i + 1, TRUE)
    ELSE IF inName /\ (isLetterOrNumber(s[i]) \/ s[i] = ChUnderscore)
    THEN StripRefs(s, i + 1, TRUE)
    ELSE <<s[i]>> \o StripRefs(s, i + 1, FALSE)

\* the double quotes of s are balanced
EvenQuotes(s) == Cardinality(Positions(s, ChDQuote)) % 2 = 0

\* C11: on Unix with an environment, a command line of plain text, double
\* quotes and references to variables the environment does not set yields
\* FoundMeta and no words with abortOnMeta when its quotes are balanced;
\* without abortOnMeta the references contribute no text: the words and the
\* status are those of the line without the references, the status is Ok
\* when the quotes are balanced, and without quotes the words are the fields
\* of the line without the references.
C11_UnsetVariable ==
    (pc = "split" /\ ~env.null /\ Holds(args, ChDollar))
    => /\ (abortOnMeta /\ EvenQuotes(args)) => (err = "FoundMeta" /\ ret = <<>>)
       /\ ~abortOnMeta =>
            LET bare == StripRefs(args, 1, FALSE)
                plain == splitArgsUnix(bare, FALSE, NullEnv, <<>>)
            IN  /\ ret = plain.ret
                /\ err = plain.err
                /\ EvenQuotes(args) => err = "SplitOk"
                /\ ~Holds(args, ChDQuote) => ret = Fields(bare)

\* a "$U" was split without abortOnMeta: the word a and an empty word
C11_Witness ==
    /\ pc = "split" /\ ~abortOnMeta /\ ~env.null
    /\ args = <<97, ChSpace, ChDQuote>> \o RefUnsetBare \o <<ChDQuote>>
    /\ err = "SplitOk"
    /\ ret = << <<97>>, <<>> >>

\* $U alone was split with abortOnMeta: FoundMeta
C11_WitnessAbort ==
    /\ pc = "split" /\ abortOnMeta /\ ~env.null
    /\ args = RefUnsetBare
    /\ err = "FoundMeta" /\ ret = <<>>


(***************************************************************************)
(* prepareArgs and prepareCommand.                                         *)
(***************************************************************************)
\* the abortOnMeta argument of prepareArgs when the caller names none
defaultAbortOnMeta == TRUE

\* ProcessArgs::prepareArgs: the status written to *err and the ProcessArgs
prepareArgs(cmd, osType, e, pwd, ab, host) ==
    IF osType = "win"
    THEN LET p == prepareArgsWin(cmd, e, pwd, host)
         IN  [err |-> p.err, args |-> createWindowsArgs(p.args)]
    ELSE LET r == splitArgs(cmd, osType, ab, TRUE, "SplitOk", e, pwd, host)
         IN  [err |-> r.err, args |-> createUnixArgs(r.ret)]

\* a set QString
Str(v) == [set |-> TRUE, value |-> v]

\* "/bin/sh", taken whatever SHELL holds
shellIgnoringEnv(sh) == Str(<<47, 98, 105, 110, 47, 115, 104>>)

\* qEnvironmentVariable("SHELL", "/bin/sh")
shellOrDefault(sh) ==
    IF sh.SHELL.set THEN sh.SHELL ELSE Str(<<47, 98, 105, 110, 47, 115, 104>>)

\* QString::fromLatin1(qgetenv("COMSPEC")): empty when COMSPEC is not set
comspec(sh) == IF sh.COMSPEC.set THEN sh.COMSPEC ELSE Str(<<>>)

\* "-c"
dashC == <<45, 99>>

\* "/v:off /s /c \""
cmdSwitches == <<47, 118, 58, 111, 102, 102, 32, 47, 115, 32, 47, 99, 32, 34>>

\* a BadQuoting status falls back to the shell as FoundMeta does
unixGivesUpOnAny(e) == FALSE

\* if (err != ProcessArgs::FoundMeta) return false;
unixGivesUpOn(e) == e # "FoundMeta"

\* prepareCommand after '*outArgs = prepareArgs(arguments, &err, ...)': pa
\* holds err and what prepareArgs returned
prepareCommandWith(pa, cmd, arguments, osType, host, sh, prevCmd) ==
    IF pa.err = "SplitOk"
    THEN [ok |-> TRUE, outCmd |-> Str(cmd), outArgs |-> pa.args, err |-> pa.err]
    ELSE IF osType = "win"
    THEN [ok |-> TRUE, outCmd |-> comspec(sh),
          outArgs |-> createWindowsArgs(
              cmdSwitches \o quoteArg(toNativeSeparators(cmd, host), host)
              \o <<ChSpace>> \o arguments \o <<ChDQuote>>),
          err |-> pa.err]
    ELSE IF unixGivesUpOn(pa.err)
    THEN [ok |-> FALSE, outCmd |-> prevCmd, outArgs |-> pa.args, err |-> pa.err]
    ELSE [ok |-> TRUE, outCmd |-> shellOrDefault(sh),
          outArgs |-> createUnixArgs(
              <<dashC, quoteArg(cmd, host) \o <<ChSpace>> \o arguments>>),
          err |-> pa.err]

\* ProcessArgs::prepareCommand: the value returned, *outCmd and *outArgs
\* (prevCmd: what *outCmd held before the call), and the local err
prepareCommand(cmd, arguments, osType, e, pwd, host, sh, prevCmd) ==
    prepareCommandWith(prepareArgs(arguments, osType, e, pwd, defaultAbortOnMeta, host),
                       cmd, arguments, osType, host, sh, prevCmd)

\* the client extends the command by the character c
TypeCommandChar(c, maxLen) ==
    /\ pc = "input"
    /\ argList = <<>>
    /\ args = <<>>
    /\ Len(command) < maxLen
    /\ command' = Append(command, c)
    /\ UNCHANGED <<splitVars, hostOs, shell, outCmd, outArgs, prepOk>>
    /\ UNCHANGED notPrep

\* QString outCmd; ProcessArgs outArgs;
\* prepOk = ProcessArgs::prepareCommand(command, args, &outCmd, &outArgs, os, e)
\* on a host of type host with the process environment sh
PrepareCommand(e, host, sh) ==
    /\ pc = "input"
    /\ argList = <<>>
    /\ \E res \in {prepareCommand(command, args, os, e, <<>>, host, sh, outCmd)} :
           /\ prepOk' = res.ok
           /\ outCmd' = res.outCmd
           /\ outArgs' = res.outArgs
           /\ err' = res.err
    /\ abortOnMeta' = defaultAbortOnMeta
    /\ env' = e
    /\ hostOs' = host
    /\ shell' = sh
    /\ pc' = "prepared"
    /\ UNCHANGED <<os, argList, args, quoted, errIn, ret, command>>
    /\ UNCHANGED notPrep

\* a / and space
PrepCmdChars == {97, ChSlash, ChSpace}
PrepMaxCmd == 2

\* a space " | \ $V
PrepToks == {<<97>>, <<ChSpace>>, <<ChDQuote>>, <<124>>, <<ChBackslash>>, RefBare}
PrepMaxLen == 3

\* SHELL and COMSPEC not set; SHELL = /z and COMSPEC = c
ShellEnvs == {[SHELL |-> Unset, COMSPEC |-> Unset],
              [SHELL |-> Str(<<47, 122>>), COMSPEC |-> Str(<<99>>)]}

InitPrepare == InitFor("unix") \/ InitFor("win")

NextPrepare ==
    \/ \E c \in PrepCmdChars : TypeCommandChar(c, PrepMaxCmd)
    \/ \E tok \in PrepToks : TypeCmd(tok, PrepMaxLen)
    \/ \E e \in {NullEnv, MetaEnv}, host \in {"unix", "win"}, sh \in ShellEnvs :
           PrepareCommand(e, host, sh)

SpecPrepare == InitPrepare /\ [][NextPrepare]_vars


\* C12: prepareCommand on Unix: when splitting the arguments (with
\* abortOnMeta) is Ok, it returns true, the output command is the command
\* and the argument list is the split words; when the split reports
\* FoundMeta, it returns true, the output command is the value of SHELL, or
\* /bin/sh when SHELL is not set, and the argument list is -c followed by
\* quoteArg(command), a space and the arguments string as it was given.
C12_PrepareCommandUnix ==
    (pc = "prepared" /\ os = "unix")
    => LET sp == splitArgs(args, "unix", TRUE, TRUE, "SplitOk", env, <<>>, hostOs)
       IN  /\ sp.err = "SplitOk"
              => /\ prepOk
                 /\ outCmd = [set |-> TRUE, value |-> command]
                 /\ outArgs.set /\ ~outArgs.isWindows
                 /\ outArgs.unixArgs = sp.ret
           /\ sp.err = "FoundMeta"
              => /\ prepOk
                 /\ outCmd.set
                 /\ outCmd.value = (IF shell.SHELL.set THEN shell.SHELL.value
                                    ELSE <<47, 98, 105, 110, 47, 115, 104>>)
                 /\ outArgs.set /\ ~outArgs.isWindows
                 /\ outArgs.unixArgs =
                        << <<45, 99>>,
                           quoteArg(command, hostOs) \o <<ChSpace>> \o args >>

\* the command "a " with the arguments | and SHELL = /z on a Unix host:
\* /z -c "'a ' |"
C12_Witness ==
    /\ pc = "prepared" /\ os = "unix" /\ hostOs = "unix"
    /\ command = <<97, ChSpace>>
    /\ args = <<124>>
    /\ prepOk
    /\ outCmd = [set |-> TRUE, value |-> <<47, 122>>]
    /\ outArgs.unixArgs = << <<45, 99>>, <<ChSQuote, 97, ChSpace, ChSQuote, ChSpace, 124>> >>

\* the split of the platform, with abortOnMeta, reports BadQuoting for s
SplitReportsBadQuoting(s, osType, e) ==
    splitArgs(s, osType, TRUE, TRUE, "SplitOk", e, <<>>, hostOs).err = "BadQuoting"

\* C13 as stated: on either platform, when the platform's split reports
\* BadQuoting for the arguments, prepareCommand returns false, leaves the
\* output command as it was and produces no argument list to execute.
C13_BadQuotingFailsBothPlatforms ==
    (pc = "prepared" /\ SplitReportsBadQuoting(args, os, env))
    => /\ ~prepOk
       /\ outCmd = Unset
       /\ outArgs.set => (outArgs.unixArgs = <<>> /\ outArgs.windowsArgs = <<>>)

\* C13 amended: on Unix, prepareCommand returns false exactly when the split
\* reports BadQuoting for the arguments, and then the output command is left
\* as it was and the argument list is the empty list.  On Windows it always
\* returns true: quoting is not checked; the output command is the command
\* with the prepared arguments when the cmd layer finds no metacharacter,
\* and COMSPEC with a /c command line otherwise.
C13_BadQuotingFailsUnix ==
    pc = "prepared"
    => /\ os = "unix"
          => /\ ~prepOk <=> SplitReportsBadQuoting(args, os, env)
             /\ ~prepOk => (outCmd = Unset /\ outArgs = createUnixArgs(<<>>))
       /\ os = "win"
          => /\ prepOk
             /\ outArgs.set /\ outArgs.isWindows
             /\ err # "BadQuoting"
             /\ err = "SplitOk" => outCmd = [set |-> TRUE, value |-> command]
             /\ err = "FoundMeta"
                  => outCmd = (IF shell.COMSPEC.set THEN shell.COMSPEC
                               ELSE [set |-> TRUE, value |-> <<>>])

\* on Unix the arguments "a were refused
C13_Witness ==
    /\ pc = "prepared" /\ os = "unix"
    /\ args = <<ChDQuote, 97>>
    /\ err = "BadQuoting"
    /\ ~prepOk
    /\ outCmd = Unset


(***************************************************************************)
(* expandMacros.  The macro expander mx is a function from macro names     *)
(* (the texts findMacro recognises) to their values.                       *)
(***************************************************************************)
IntMax == 2147483647

\* int addition; on overflow (undefined behaviour) the sum wraps by 2^32
\* when wrap is TRUE and stays INT_MAX otherwise
addInt(x, k, wrap) ==
    IF x <= IntMax - k THEN x + k
    ELSE IF wrap THEN (x - IntMax) + k - IntMax - 2 ELSE IntMax

\* the sum of two int values modulo 2^32
addWrap(a, b) ==
    IF a > 0 /\ b > 0 /\ a > IntMax - b THEN (a - IntMax - 1) + (b - IntMax - 1)
    ELSE IF a < 0 /\ b < 0 /\ a < (-IntMax - 1) - b THEN (a + IntMax + 1) + (b + IntMax + 1)
    ELSE a + b

RECURSIVE mulWrap(_, _)
\* the product of the int x and k >= 0 modulo 2^32
mulWrap(x, k) ==
    IF k = 0 THEN 0
    ELSE IF k % 2 = 1 THEN addWrap(addWrap(mulWrap(x, k \div 2), mulWrap(x, k \div 2)), x)
    ELSE addWrap(mulWrap(x, k \div 2), mulWrap(x, k \div 2))

\* int multiplication of non-negative values; on overflow (undefined
\* behaviour) the product wraps by 2^32 when wrap is TRUE and stays INT_MAX
\* otherwise
mulInt(x, k, wrap) ==
    IF x <= IntMax \div k THEN x * k
    ELSE IF wrap THEN mulWrap(x, k)
    ELSE IntMax

\* QString::replace(position, n, after) and QString::insert(position, s)
replaceAt(str, position, n, after) ==
    SubSeq(str, 1, position) \o after \o SubSeq(str, position + n + 1, Len(str))
insertAt(str, position, t) == replaceAt(str, position, 0, t)

\* str.unicode()[p].unicode(): the terminating NUL at p = str.length()
Unicode(str, p) == IF p < Len(str) THEN At(str, p) ELSE 0

\* mx->findMacro(str, &pos, &ret): the length, position and value of the
\* first macro at or after from; length 0 when there is none
findMacro(mx, str, from) ==
    LET hits == {i \in from..(Len(str) - 1) :
                    \E n \in DOMAIN mx : Mid(str, i, Len(n)) = n}
    IN  IF hits = {} THEN [len |-> 0, pos |-> from, rsts |-> <<>>]
        ELSE LET i == Min(hits)
                 n == CHOOSE n \in DOMAIN mx : Mid(str, i, Len(n)) = n
             IN  [len |-> Len(n), pos |-> i, rsts |-> mx[n]]

RECURSIVE quoteArgInternalWinFrom(_, _, _)
\* the for loop of quoteArgInternalWin at its condition p < ret.length()
quoteArgInternalWinFrom(r, p, bslashes) ==
    IF p >= Len(r) THEN [ret |-> r, bslashes |-> bslashes]
    ELSE IF At(r, p) = ChBackslash THEN quoteArgInternalWinFrom(r, p + 1, bslashes + 1)
    ELSE IF At(r, p) = ChDQuote
    THEN LET r1 == insertAt(r, p, Backslashes(bslashes))
             p1 == p + bslashes
             r2 == insertAt(r1, p1, <<ChDQuote, ChBackslash, ChCaret, ChDQuote>>)
         IN  quoteArgInternalWinFrom(r2, p1 + 4 + 1, 0)
    ELSE quoteArgInternalWinFrom(r, p + 1, 0)

\* quoteArgInternalWin(ret, bslashes): the string and the value returned
quoteArgInternalWin(r, bslashes) == quoteArgInternalWinFrom(r, 0, bslashes)

\* the result of expandMacros: the value returned and *cmd after the call
\* (cmd: *cmd before the call)
mxDone(str) == [ok |-> TRUE, cmd |-> str]

\* the text worked on so far is handed back
mxFailPartial(cmd, str) == [ok |-> FALSE, cmd |-> str]

\* return false: str, the copy worked on, is dropped
mxFail(cmd, str) == [ok |-> FALSE, cmd |-> cmd]


\* the CommandLineToArgv() parsing states of expandMacros, in enum order
CrtBasic == 0
CrtNeedWord == 1
CrtInWord == 2
CrtClosed == 3
CrtHadQuote == 4
CrtQuoted == 5
CrtNeedQuote == 6

\* the macro at an escaped position is expanded like any other
mxWinEscapedOk(shellState) == FALSE

\* if (shellState == ShellEscaped) return false;
mxWinEscaped(shellState) == shellState = "ShellEscaped"

\* the expansion at pos == varPos on Windows: the replacement text as it is
\* put into the string, the CRT state and rbslashes after it, or a refusal.
\* s: the loop's variables
mxWinQuote(s) ==
    LET rb == s.rbslashes + s.bslashes
    IN  IF s.crtState < CrtQuoted
        THEN IF s.rsts = <<>>
             THEN [ok |-> TRUE, rsts |-> <<>>, rbslashes |-> rb,
                   crtState |-> IF s.crtState = CrtBasic THEN CrtNeedWord ELSE s.crtState]
             ELSE IF hasSpecialCharsWin(s.rsts)
             THEN IF s.crtState = CrtClosed
                  THEN [ok |-> FALSE, rsts |-> <<>>, rbslashes |-> rb, crtState |-> s.crtState]
                  ELSE LET q == quoteArgInternalWin(s.rsts, 0)
                       IN  [ok |-> TRUE,
                            rsts |-> Backslashes(rb) \o <<ChDQuote>> \o q.ret,
                            rbslashes |-> q.bslashes,
                            crtState |-> CrtNeedQuote]
             ELSE LET q == quoteArgInternalWin(s.rsts, rb)
                  IN  [ok |-> TRUE, rsts |-> q.ret, rbslashes |-> q.bslashes,
                       crtState |-> CrtInWord]
        ELSE LET q == quoteArgInternalWin(s.rsts, rb)
             IN  [ok |-> TRUE, rsts |-> q.ret, rbslashes |-> q.bslashes,
                  crtState |-> s.crtState]

\* if (crtState == CrtNeedQuote): the backslashes and the closing quote are
\* put in after an expansion that opened a quote
mxWinCloseQuote(s, wrap) ==
    IF s.crtState # CrtNeedQuote THEN s
    ELSE LET n == s.rbslashes
         IN  [s EXCEPT !.str = insertAt(insertAt(s.str, s.pos, Backslashes(n)),
                                        s.pos + n, <<ChDQuote>>),
                       !.pos = s.pos + n + 1,
                       !.varPos = addInt(IF n > 0 THEN addInt(s.varPos, n, wrap)
                                         ELSE s.varPos, 1, wrap),
                       !.rbslashes = 0,
                       !.crtState = CrtHadQuote]

\* the CRT state after an unescaped double quote, with a quote right after
\* a quoted expansion opening a quoted run
mxWinAfterQuoteReopens(crtState) ==
    IF crtState = CrtQuoted THEN CrtClosed
    ELSE IF crtState = CrtClosed THEN CrtInWord
    ELSE CrtQuoted

\* the CRT state after an unescaped double quote; "fail" for an opening
\* quote right after a quoted expansion
mxWinAfterQuote(crtState) ==
    IF crtState = CrtQuoted THEN CrtClosed
    ELSE IF crtState = CrtClosed THEN CrtInWord
    ELSE IF crtState = CrtHadQuote THEN -1
    ELSE CrtQuoted

\* the macro is expanded whatever the two quoting states are
mxWinOutOfSyncIgnored(shellState, crtState) == FALSE

\* if ((shellState == ShellQuoted) != (crtState == CrtQuoted)) return false;
mxWinOutOfSync(shellState, crtState) ==
    (shellState = "ShellQuoted") # (crtState = CrtQuoted)

RECURSIVE mxWinLoop(_, _, _, _)
\* the forever loop of the Windows branch; cmd: *cmd, mx: the expander
mxWinLoop(cmd, mx, s0, wrap) ==
    IF s0.pos = s0.varPos
    THEN IF mxWinEscaped(s0.shellState) THEN mxFail(cmd, s0.str)
         ELSE IF mxWinOutOfSync(s0.shellState, s0.crtState)
         THEN mxFail(cmd, s0.str)
         ELSE LET q == mxWinQuote(s0)
              IN  IF ~q.ok THEN mxFail(cmd, s0.str)
                  ELSE LET str1 == replaceAt(s0.str, s0.pos, s0.varLen, q.rsts)
                           pos1 == s0.pos + Len(q.rsts)
                           f == findMacro(mx, str1, pos1)
                       IN  mxWinLoop(cmd, mx,
                               [s0 EXCEPT !.str = str1, !.pos = pos1,
                                          !.varPos = IF f.len = 0 THEN IntMax ELSE f.pos,
                                          !.varLen = f.len,
                                          !.rsts = f.rsts,
                                          !.bslashes = 0,
                                          !.rbslashes = q.rbslashes,
                                          !.crtState = q.crtState], wrap)
    ELSE
    LET s == mxWinCloseQuote(s0, wrap)
        cc == Unicode(s.str, s.pos)
    IN
    IF s.shellState = "ShellBasic" /\ cc = ChCaret
    THEN mxWinLoop(cmd, mx, [s EXCEPT !.shellState = "ShellEscaped", !.pos = s.pos + 1], wrap)
    ELSE
    LET isEnd == cc = 0
        isWs == cc = 0 \/ cc = ChSpace \/ cc = ChTab
        needWord == isWs /\ s.crtState = CrtNeedWord
        isQuote == ~isWs /\ cc = ChDQuote
        \* insertions: "" after an empty expansion, or the backslashes before a quote
        ins == IF needWord THEN 2
               ELSE IF isQuote /\ s.rbslashes > 0 THEN s.rbslashes ELSE 0
        str1 == IF needWord THEN insertAt(s.str, s.pos, <<ChDQuote, ChDQuote>>)
                ELSE IF ins > 0 THEN insertAt(s.str, s.pos - 1, Backslashes(ins))
                ELSE s.str
        pos1 == s.pos + ins
        varPos1 == IF ins > 0 THEN addInt(s.varPos, ins, wrap) ELSE s.varPos
        shell1 == IF isQuote /\ s.shellState # "ShellEscaped"
                  THEN (IF s.shellState = "ShellQuoted" THEN "ShellBasic" ELSE "ShellQuoted")
                  ELSE s.shellState
        unescaped == isQuote /\ s.bslashes % 2 = 0
        crt1 == IF isWs THEN (IF s.crtState < CrtQuoted THEN CrtBasic ELSE s.crtState)
                ELSE IF unescaped THEN mxWinAfterQuote(s.crtState)
                ELSE IF s.crtState < CrtQuoted THEN CrtInWord
                ELSE s.crtState
        bs1 == IF ~isWs /\ cc = ChBackslash THEN s.bslashes + 1 ELSE 0
        rbs1 == IF ~isWs /\ cc = ChBackslash THEN s.rbslashes ELSE 0
    IN
    IF crt1 = -1 THEN mxFail(cmd, str1)
    ELSE IF isEnd THEN mxDone(str1)
    ELSE IF varPos1 = IntMax /\ rbs1 = 0 THEN mxDone(str1)
    ELSE mxWinLoop(cmd, mx,
             [s EXCEPT !.str = str1, !.pos = pos1 + 1, !.varPos = varPos1,
                       !.shellState = IF shell1 = "ShellEscaped" THEN "ShellBasic" ELSE shell1,
                       !.crtState = crt1, !.bslashes = bs1, !.rbslashes = rbs1], wrap)


RECURSIVE escapeForDQuote(_)
\* rsts.replace(QRegularExpression("([$`\"\\\\])"), "\\\\1"): a backslash
\* before every $ ` " and backslash
escapeForDQuote(r) ==
    IF r = <<>> THEN <<>>
    ELSE (IF Head(r) \in {ChDollar, ChBacktick, ChDQuote, ChBackslash}
          THEN <<ChBackslash, Head(r)>> ELSE <<Head(r)>>)
         \o escapeForDQuote(Tail(r))

\* '\''
sqEscape == <<ChSQuote, ChBackslash, ChSQuote, ChSQuote>>

\* the value is put in as it is, whatever the context
mxUnixQuoteVerbatim(rsts, current, dquote) == rsts

\* the replacement text as it is put into the string on Unix
mxUnixQuote(rsts, current, dquote) ==
    IF dquote THEN escapeForDQuote(rsts)
    ELSE IF current = "MxSingleQuote" THEN replaceChar(rsts, ChSQuote, sqEscape)
    ELSE IF rsts = <<>> \/ hasSpecialCharsUnix(rsts)
    THEN <<ChSQuote>> \o replaceChar(rsts, ChSQuote, sqEscape) \o <<ChSQuote>>
    ELSE rsts

RECURSIVE mxBacktick(_, _, _, _)
\* the forever loop over a backtick expression from pos2 on: the string
\* with the escapes removed, the position of the closing backtick and
\* varPos, or ok = FALSE for an unterminated expression
mxBacktick(str, pos2, varPos, dquote) ==
    IF pos2 >= Len(str) THEN [ok |-> FALSE, str |-> str, pos2 |-> pos2, varPos |-> varPos]
    ELSE LET cc == At(str, pos2)
         IN  IF cc = ChBacktick
             THEN [ok |-> TRUE, str |-> str, pos2 |-> pos2, varPos |-> varPos]
             ELSE IF cc = ChBackslash
             THEN LET c2 == Unicode(str, pos2 + 1)
                  IN  IF c2 = ChDollar \/ c2 = ChBacktick \/ c2 = ChBackslash
                         \/ (c2 = ChDQuote /\ dquote)
                      THEN mxBacktick(removeAt(str, pos2), pos2 + 1,
                                      IF varPos >= pos2 + 1 THEN varPos - 1 ELSE varPos,
                                      dquote)
                      ELSE mxBacktick(str, pos2 + 2, varPos, dquote)
             ELSE mxBacktick(str, pos2 + 1, varPos, dquote)

\* QStack::push, top and pop on a sequence
push(stack, x) == Append(stack, x)
top(stack) == stack[Len(stack)]
pop(stack) == SubSeq(stack, 1, Len(stack) - 1)

\* the syntax error is reported
mxUnixExcessFail(cmd, str) == mxFail(cmd, str)

\* break; // Syntax error - excess closing parenthesis / brace
mxUnixExcess(cmd, str) == mxDone(str)

\* the macro after a backslash is expanded like any other
mxUnixEscapedOk(varPos, pos) == FALSE

\* if (varPos < pos) return false; after pos += 2 for a backslash
mxUnixEscaped(varPos, pos) == varPos < pos

RECURSIVE mxUnixLoop(_, _, _)
\* the while loop of the Unix branch; s.state is the MxState, s.sstack and
\* s.ostack the stacks
mxUnixLoop(cmd, mx, s) ==
    IF s.pos >= Len(s.str) THEN mxDone(s.str)
    ELSE IF s.pos = s.varPos
    THEN LET r == mxUnixQuote(s.rsts, s.state.current, s.state.dquote)
             str1 == replaceAt(s.str, s.pos, s.varLen, r)
             pos1 == s.pos + Len(r)
             f == findMacro(mx, str1, pos1)
         IN  IF f.len = 0 THEN mxDone(str1)
             ELSE mxUnixLoop(cmd, mx,
                      [s EXCEPT !.str = str1, !.pos = pos1, !.varPos = f.pos,
                                !.varLen = f.len, !.rsts = f.rsts])
    ELSE
    LET cc == At(s.str, s.pos)
        st == s.state
        pushed == push(s.sstack, st)
        popped == [s EXCEPT !.state = top(s.sstack), !.sstack = pop(s.sstack),
                            !.pos = s.pos + 1]
        step == [s EXCEPT !.pos = s.pos + 1]
    IN
    IF st.current = "MxSingleQuote"
    THEN mxUnixLoop(cmd, mx, IF cc = ChSQuote THEN popped ELSE step)
    ELSE IF cc = ChBackslash
    THEN IF mxUnixEscaped(s.varPos, s.pos + 2) THEN mxFail(cmd, s.str)
         ELSE mxUnixLoop(cmd, mx, [s EXCEPT !.pos = s.pos + 2])
    ELSE IF cc = ChDollar
    THEN LET c2 == Unicode(s.str, s.pos + 1)
         IN  IF c2 = 40
             THEN IF Unicode(s.str, s.pos + 2) = 40
                  THEN mxUnixLoop(cmd, mx,
                           [s EXCEPT !.sstack = pushed,
                                     !.ostack = push(s.ostack,
                                         [str |-> s.str, pos |-> s.pos + 3,
                                          varPos |-> s.varPos]),
                                     !.state = [st EXCEPT !.current = "MxMath"],
                                     !.pos = s.pos + 3])
                  ELSE mxUnixLoop(cmd, mx,
                           [s EXCEPT !.sstack = pushed,
                                     !.state = [current |-> "MxParen", dquote |-> FALSE],
                                     !.pos = s.pos + 2])
             ELSE IF c2 = ChLBrace
             THEN mxUnixLoop(cmd, mx,
                      [s EXCEPT !.sstack = pushed,
                                !.state = [st EXCEPT !.current = "MxSubst"],
                                !.pos = s.pos + 2])
             ELSE mxUnixLoop(cmd, mx, [s EXCEPT !.pos = s.pos + 2])
    ELSE IF cc = ChBacktick
    THEN LET str1 == replaceAt(s.str, s.pos, 1, <<ChDollar, 40, ChSpace>>)
             b == mxBacktick(str1, s.pos + 3, s.varPos + 2, st.dquote)
         IN  IF ~b.ok THEN mxFail(cmd, b.str)
             ELSE mxUnixLoop(cmd, mx,
                      [s EXCEPT !.str = replaceAt(b.str, b.pos2, 1, <<41>>),
                                !.pos = s.pos + 3,
                                !.varPos = b.varPos,
                                !.sstack = pushed,
                                !.state = [current |-> "MxParen", dquote |-> FALSE]])
    ELSE IF st.current = "MxDoubleQuote"
    THEN mxUnixLoop(cmd, mx, IF cc = ChDQuote THEN popped ELSE step)
    ELSE IF cc = ChSQuote
    THEN mxUnixLoop(cmd, mx,
             IF ~st.dquote
             THEN [step EXCEPT !.sstack = pushed,
                               !.state = [st EXCEPT !.current = "MxSingleQuote"]]
             ELSE step)
    ELSE IF cc = ChDQuote
    THEN mxUnixLoop(cmd, mx,
             IF ~st.dquote
             THEN [step EXCEPT !.sstack = pushed,
                               !.state = [current |-> "MxDoubleQuote", dquote |-> TRUE]]
             ELSE step)
    ELSE IF st.current = "MxSubst"
    THEN mxUnixLoop(cmd, mx, IF cc = ChRBrace THEN popped ELSE step)
    ELSE IF cc = 41
    THEN IF st.current = "MxMath"
         THEN IF Unicode(s.str, s.pos + 1) = 41
              THEN mxUnixLoop(cmd, mx, [popped EXCEPT !.pos = s.pos + 2])
              ELSE LET sav == top(s.ostack)
                       paren == [current |-> "MxParen", dquote |-> FALSE]
                   IN  mxUnixLoop(cmd, mx,
                           [s EXCEPT !.varPos = sav.varPos, !.pos = sav.pos,
                                     !.str = sav.str, !.ostack = pop(s.ostack),
                                     !.state = paren,
                                     !.sstack = push(s.sstack, paren)])
         ELSE IF st.current = "MxParen" THEN mxUnixLoop(cmd, mx, popped)
         ELSE mxUnixExcess(cmd, s.str)
    ELSE IF cc = ChRBrace
    THEN IF st.current = "MxGroup" THEN mxUnixLoop(cmd, mx, popped)
         ELSE mxUnixExcess(cmd, s.str)
    ELSE IF cc = 40
    THEN mxUnixLoop(cmd, mx,
             [step EXCEPT !.sstack = pushed, !.state = [st EXCEPT !.current = "MxParen"]])
    ELSE IF cc = ChLBrace
    THEN mxUnixLoop(cmd, mx,
             [step EXCEPT !.sstack = pushed, !.state = [st EXCEPT !.current = "MxGroup"]])
    ELSE mxUnixLoop(cmd, mx, step)

\* bool ProcessArgs::expandMacros(QString *cmd, AbstractMacroExpander *mx,
\* OsType osType): the value returned and *cmd after the call
expandMacros(cmd, mx, osType, wrap) ==
    IF cmd = <<>> THEN mxDone(cmd)
    ELSE LET f == findMacro(mx, cmd, 0)
         IN  IF f.len = 0 THEN mxDone(cmd)
             ELSE IF osType = "win"
             THEN mxWinLoop(cmd, mx,
                      [str |-> cmd, pos |-> 0, varPos |-> f.pos, varLen |-> f.len,
                       rsts |-> f.rsts, shellState |-> "ShellBasic",
                       crtState |-> CrtBasic, bslashes |-> 0, rbslashes |-> 0], wrap)
             ELSE mxUnixLoop(cmd, mx,
                      [str |-> cmd, pos |-> 0, varPos |-> f.pos, varLen |-> f.len,
                       rsts |-> f.rsts,
                       state |-> [current |-> "MxBasic", dquote |-> FALSE],
                       sstack |-> <<>>, ostack |-> <<>>])


\* QString cmd = args; mxOk = ProcessArgs::expandMacros(&cmd, m, os);
\* expanded = cmd
ExpandMacros(m, wrap) ==
    /\ pc = "input"
    /\ argList = <<>>
    /\ LET res == expandMacros(args, m, os, wrap)
       IN  /\ mxOk' = res.ok
           /\ expanded' = res.cmd
    /\ expander' = m
    /\ pc' = "expanded"
    /\ UNCHANGED <<os, argList, args, quoted, abortOnMeta, env, errIn, err, ret>>
    /\ UNCHANGED notMacro


(***************************************************************************)
(* expandMacros with the macro as a word of its own: a command line of     *)
(* plain words and the macro %m is typed and expanded.                     *)
(***************************************************************************)
\* the macro %m
MacroName == <<ChPercent, 109>>

\* a space %m
WordToks == {<<97>>, <<ChSpace>>, MacroName}
WordMaxLen == 5

\* the characters of the values: a space " \ ^ ' %
ValChars == {97, ChSpace, ChDQuote, ChBackslash, ChCaret, ChSQuote, ChPercent}
ValMaxLen == 3

RECURSIVE StringsUpTo(_, _)
\* the strings over the characters S of length up to n
StringsUpTo(S, n) ==
    IF n = 0 THEN {<<>>}
    ELSE LET shorter == StringsUpTo(S, n - 1)
         IN  shorter \cup {Append(t, c) : t \in shorter, c \in S}

\* the values that hold a double quote
QuoteValues == {v \in StringsUpTo(ValChars, ValMaxLen) : Holds(v, ChDQuote)}

InitMacroWord == InitFor("unix") \/ InitFor("win")

NextMacroWord ==
    \/ \E tok \in WordToks : TypeCmd(tok, WordMaxLen)
    \/ \E v \in QuoteValues, wrap \in BOOLEAN : ExpandMacros(MacroName :> v, wrap)

SpecMacroWord == InitMacroWord /\ [][NextMacroWord]_vars

\* every macro of s is a word of its own, and there is one
MacroIsOwnWord(s) ==
    /\ \E i \in 1..Len(Fields(s)) : Fields(s)[i] = MacroName
    /\ \A i \in 1..Len(Fields(s)) :
          Holds(Fields(s)[i], ChPercent) => Fields(s)[i] = MacroName

\* the words of s with the value v for every macro
WordsWithValue(s, v) ==
    [i \in 1..Len(Fields(s)) |-> IF Fields(s)[i] = MacroName THEN v ELSE Fields(s)[i]]

\* the split of the platform, with its cmd layer (abortOnMeta) and without
\* an environment, by a caller whose status variable holds SplitOk
PlatformSplit(s, osType) == splitArgs(s, osType, TRUE, TRUE, "SplitOk", NullEnv, <<>>, hostOs)

\* C14 as stated: on both platforms, when every macro of the command line
\* is a word of its own outside quotes and the value holds a double quote,
\* expandMacros returns true and the platform's split of the result is Ok
\* and gives the words of the command line with the value, exactly, for the
\* macro.
C14_QuoteValueRoundTripAny ==
    (pc = "expanded" /\ MacroIsOwnWord(args))
    => /\ mxOk
       /\ PlatformSplit(expanded, os).err = "SplitOk"
       /\ PlatformSplit(expanded, os).ret = WordsWithValue(args, expander[MacroName])


\* the same on Unix for every value, and on Windows for the values without
\* a percent sign (which the cmd layer takes for a variable reference)
C14_QuoteValueRoundTripNoPercent ==
    (pc = "expanded" /\ MacroIsOwnWord(args)
        /\ (os = "unix" \/ ~Holds(expander[MacroName], ChPercent)))
    => /\ mxOk
       /\ PlatformSplit(expanded, os).err = "SplitOk"
       /\ PlatformSplit(expanded, os).ret = WordsWithValue(args, expander[MacroName])


(***************************************************************************)
(* expandMacros over command lines with quoting, escapes, substitutions    *)
(* and excess closing brackets.                                            *)
(***************************************************************************)
\* Unix: a space ' " \ $ ( ) } ` %m
MxUnixToks ==
    {<<97>>, <<ChSpace>>, <<ChSQuote>>, <<ChDQuote>>, <<ChBackslash>>,
     <<ChDollar>>, <<40>>, <<41>>, <<ChRBrace>>, <<ChBacktick>>, MacroName}

\* Windows: a space " \ ^ %m
MxWinToks ==
    {<<97>>, <<ChSpace>>, <<ChDQuote>>, <<ChBackslash>>, <<ChCaret>>, MacroName}

MxMaxLen == 5

\* values without macro syntax: empty, a plain word, a word with a space
MxValues == {<<>>, <<97>>, <<97, ChSpace, 98>>}

InitMacroScan == InitFor("unix") \/ InitFor("win")

NextMacroScan ==
    \/ \E tok \in (IF os = "unix" THEN MxUnixToks ELSE MxWinToks) :
          TypeCmd(tok, MxMaxLen)
    \/ \E v \in MxValues, wrap \in BOOLEAN : ExpandMacros(MacroName :> v, wrap)

SpecMacroScan == InitMacroScan /\ [][NextMacroScan]_vars

RECURSIVE CmdState(_, _, _)
\* the state of cmd's lexer after s: "basic", "quoted" inside double
\* quotes, "escaped" after a circumflex outside them
CmdState(s, i, st) ==
    IF i > Len(s) THEN st
    ELSE LET c == s[i]
             nxt == CASE st = "basic" ->
                         (IF c = ChDQuote THEN "quoted"
                          ELSE IF c = ChCaret THEN "escaped" ELSE "basic")
                    [] st = "quoted" -> (IF c = ChDQuote THEN "basic" ELSE "quoted")
                    [] OTHER -> "basic"
         IN  CmdState(s, i + 1, nxt)

\* the macro starts at index i of s
MacroAt(s, i) == i + 1 <= Len(s) /\ SubSeq(s, i, i + 1) = MacroName

\* some macro of s directly follows an active escape character
EscapedMacro(s, osType) ==
    \E i \in 1..Len(s) :
        /\ MacroAt(s, i)
        /\ IF osType = "unix"
           THEN QuoteState(SubSeq(s, 1, i - 1), 1, "basic") \in {"escape", "descape"}
           ELSE CmdState(SubSeq(s, 1, i - 1), 1, "basic") = "escaped"

\* C15 as stated: on both platforms, expandMacros returns false when a macro
\* of the command line directly follows an active escape character: on Unix
\* a backslash outside single quotes, on Windows a circumflex outside cmd's
\* double quotes.
C15_EscapedMacroRefused ==
    (pc = "expanded" /\ EscapedMacro(args, os)) => ~mxOk

\* the same on Windows for every command line, and on Unix for the command
\* lines without a dollar sign and without a closing bracket
C15_EscapedMacroRefusedParsed ==
    (pc = "expanded" /\ EscapedMacro(args, os)
        /\ (os = "win" \/ (~Holds(args, ChDollar) /\ ~Holds(args, 41)
                              /\ ~Holds(args, ChRBrace))))
    => ~mxOk

\* C16: whenever expandMacros returns false, the caller's string is what it
\* was before the call, also when macros before the failing place had been
\* replaced or backticks rewritten.
C16_FailureLeavesCmd ==
    (pc = "expanded" /\ ~mxOk) => expanded = args

\* on Unix, %m\%m was refused at the second macro, after the first had
\* been replaced by a value
C16_Witness ==
    /\ pc = "expanded" /\ os = "unix"
    /\ args = MacroName \o <<ChBackslash>> \o MacroName
    /\ expander[MacroName] = <<97, ChSpace, 98>>
    /\ ~mxOk
    /\ expanded = args

\* on Unix, ``\%m was refused at the macro, after the backticks had been
\* rewritten
C16_WitnessBacktick ==
    /\ pc = "expanded" /\ os = "unix"
    /\ args = <<ChBacktick, ChBacktick, ChBackslash>> \o MacroName
    /\ ~mxOk
    /\ expanded = args

\* on Windows, %m^%m was refused at the second macro, after the first
C16_WitnessWin ==
    /\ pc = "expanded" /\ os = "win"
    /\ args = MacroName \o <<ChCaret>> \o MacroName
    /\ ~mxOk
    /\ expanded = args

\* C17 as stated: on both platforms and for every command line, whenever
\* expandMacros returns true the resulting string holds no macro (the values
\* hold no macro syntax).
C17_OkLeavesNoMacro ==
    (pc = "expanded" /\ mxOk) => \A i \in 1..Len(expanded) : ~MacroAt(expanded, i)

\* the same on Windows for every command line, and on Unix for the command
\* lines without a dollar sign and without a closing bracket
C17_OkLeavesNoMacroParsed ==
    (pc = "expanded" /\ mxOk
        /\ (os = "win" \/ (~Holds(args, ChDollar) /\ ~Holds(args, 41)
                              /\ ~Holds(args, ChRBrace))))
    => \A i \in 1..Len(expanded) : ~MacroAt(expanded, i)


(***************************************************************************)
(* ProcessArgs::ArgIterator: next() and deleteArg().                       *)
(***************************************************************************)
\* what next() hands back: the value returned and the iterator after it
itResult(found, it, prev, pos, simple, value) ==
    [ret |-> found,
     it |-> [m_str |-> it.m_str, m_pos |-> pos,
             m_prev |-> IF found THEN prev ELSE it.m_prev,
             m_simple |-> simple, m_value |-> value]]

\* doReturn: a meta character, white space after a word or the end of the
\* string; the pending backslashes belong to a simple value
itWinReturn(it, prev, w) ==
    itResult(w.crtState # "CrtBasic", it, prev, w.pos, w.simple,
             IF w.simple THEN w.value \o Backslashes(w.bslashes) ELSE <<>>)

\* the meta characters of cmd that end the arguments
itWinMeta(cc) == isMetaCharWin(cc)

RECURSIVE itWinLoop(_, _, _)
\* the Windows loop of next(); w: m_pos, shellState, crtState, varState,
\* bslashes, m_simple, m_value
itWinLoop(it, prev, w) ==
    LET cc == Unicode(it.m_str, w.pos)
        unesc == IF w.shellState = "ShellEscaped" THEN "ShellBasic" ELSE w.shellState
        word == IF w.crtState # "CrtQuoted" THEN "CrtInWord" ELSE w.crtState
        step(n) == itWinLoop(it, prev, [n EXCEPT !.pos = w.pos + 1])
    IN  IF w.shellState = "ShellBasic" /\ cc = ChCaret
        THEN step([w EXCEPT !.varState = "NoVar", !.shellState = "ShellEscaped"])
        ELSE IF (w.shellState = "ShellBasic" /\ itWinMeta(cc)) \/ cc = 0
        THEN itWinReturn(it, prev, w)
        ELSE IF w.crtState # "CrtQuoted" /\ (cc = ChSpace \/ cc = ChTab)
        THEN IF w.crtState # "CrtBasic"
             THEN itWinReturn(it, prev, w)
             ELSE step([w EXCEPT !.shellState = unesc])
        ELSE IF cc = ChBackslash
        THEN step([w EXCEPT !.bslashes = @ + 1, !.crtState = word,
                            !.varState = "NoVar", !.shellState = unesc])
        ELSE IF cc = ChDQuote
        THEN LET sh == IF w.shellState = "ShellEscaped" THEN "ShellEscaped"
                       ELSE IF w.shellState = "ShellQuoted" THEN "ShellBasic"
                       ELSE "ShellQuoted"
                 half == w.bslashes \div 2
                 q == [w EXCEPT !.varState = "NoVar", !.shellState = sh,
                                !.bslashes = half]
                 \* the quote is a character of the value
                 lit(crt) ==
                     [q EXCEPT !.crtState = crt,
                               !.value = @ \o Backslashes(half) \o <<cc>>,
                               !.bslashes = 0,
                               !.shellState = IF sh = "ShellEscaped"
                                              THEN "ShellBasic" ELSE sh]
             IN  IF w.bslashes % 2 = 0
                 THEN IF w.crtState = "CrtQuoted"
                      THEN step([q EXCEPT !.crtState = "CrtClosed"])
                      ELSE IF w.crtState = "CrtClosed"
                      THEN step(lit("CrtInWord"))
                      ELSE step([q EXCEPT !.crtState = "CrtQuoted"])
                 ELSE step(lit(word))
        ELSE LET vs == IF cc = ChPercent
                       THEN (IF w.varState = "FullVar" THEN "NoVar" ELSE "NewVar")
                       ELSE IF w.varState # "NoVar"
                       THEN (IF cc \in {ChUnderscore, 45, 46} \/ isLetterOrNumber(cc)
                             THEN "FullVar" ELSE "NoVar")
                       ELSE w.varState
             IN  step([w EXCEPT !.varState = vs,
                                !.simple = @ /\ ~(cc = ChPercent /\ w.varState = "FullVar"),
                                !.crtState = word,
                                !.value = @ \o Backslashes(w.bslashes) \o <<cc>>,
                                !.bslashes = 0,
                                !.shellState = unesc])

\* after the Unix loop: a word was seen or not
itUnixEnd(it, prev, u) ==
    itResult(u.hadWord, it, prev, u.pos, u.simple,
             IF u.simple THEN u.value ELSE <<>>)

RECURSIVE itBacktick(_, _)
\* the scan for the closing backtick, m_pos = p before ++m_pos
itBacktick(str, p) ==
    LET q == p + 1
    IN  IF q >= Len(str) THEN [closed |-> FALSE, pos |-> q]
        ELSE IF At(str, q) = ChBacktick THEN [closed |-> TRUE, pos |-> q]
        ELSE IF At(str, q) = ChBackslash THEN itBacktick(str, q + 1)
        ELSE itBacktick(str, q)

\* a dollar sign at the end of the string: break, with nothing recorded
itDollarAtEnd(u) == [u EXCEPT !.pos = u.pos + 1]

\* the operators that end the arguments outside quotes and brackets
itUnixOperator(cc) == cc \in {60, 62, 38, 124, 59}

RECURSIVE itUnixLoop(_, _, _)
\* the Unix loop of next(); u: m_pos, state, sstack, ostack, hadWord,
\* m_simple, m_value
itUnixLoop(it, prev, u) ==
    LET str == it.m_str
        len == Len(it.m_str)
        cont(n) == itUnixLoop(it, prev, [n EXCEPT !.pos = n.pos + 1])
        brk(n) == itUnixEnd(it, prev, n)
        add(n, c) == cont([n EXCEPT !.value = Append(@, c), !.hadWord = TRUE])
        popped == [u EXCEPT !.state = top(u.sstack), !.sstack = pop(u.sstack)]
        paren == [current |-> "MxParen", dquote |-> FALSE]
    IN  IF u.pos >= len THEN itUnixEnd(it, prev, u)
        ELSE LET cc == At(str, u.pos)
        IN  IF u.state.current = "MxSingleQuote"
            THEN IF cc = ChSQuote THEN cont(popped) ELSE add(u, cc)
            ELSE IF cc = ChBackslash
            THEN IF u.pos + 1 >= len THEN brk([u EXCEPT !.pos = u.pos + 1])
                 ELSE LET c2 == At(str, u.pos + 1)
                          keep == u.state.dquote
                                    /\ c2 \notin {ChDQuote, ChBackslash, ChDollar, ChBacktick}
                      IN  add([u EXCEPT !.pos = u.pos + 1,
                                        !.value = IF keep THEN Append(@, ChBackslash) ELSE @],
                              c2)
            ELSE IF cc = ChDollar
            THEN IF u.pos + 1 >= len THEN brk(itDollarAtEnd(u))
                 ELSE LET c2 == At(str, u.pos + 1)
                          ns == [u EXCEPT !.simple = FALSE, !.hadWord = TRUE]
                      IN  IF c2 = 40
                          THEN IF u.pos + 2 >= len
                               THEN brk([u EXCEPT !.pos = u.pos + 2,
                                                  !.sstack = push(@, u.state)])
                               ELSE IF At(str, u.pos + 2) = 40
                               THEN cont([ns EXCEPT !.pos = u.pos + 2,
                                                    !.sstack = push(@, u.state),
                                                    !.ostack = push(@, u.pos + 2),
                                                    !.state.current = "MxMath"])
                               ELSE cont([ns EXCEPT !.pos = u.pos + 2,
                                                    !.sstack = push(@, u.state),
                                                    !.state = paren])
                          ELSE IF c2 = ChLBrace
                          THEN cont([ns EXCEPT !.pos = u.pos + 1,
                                               !.sstack = push(@, u.state),
                                               !.state.current = "MxSubst"])
                          ELSE cont([ns EXCEPT !.pos = u.pos + 1])
            ELSE IF cc = ChBacktick
            THEN LET b == itBacktick(str, u.pos)
                 IN  IF ~b.closed
                     THEN itResult(TRUE, it, prev, b.pos, FALSE, u.value)
                     ELSE cont([u EXCEPT !.pos = b.pos, !.simple = FALSE,
                                         !.hadWord = TRUE])
            ELSE IF u.state.current = "MxDoubleQuote"
            THEN IF cc = ChDQuote THEN cont(popped) ELSE add(u, cc)
            ELSE IF cc = ChSQuote
            THEN IF ~u.state.dquote
                 THEN cont([u EXCEPT !.sstack = push(@, u.state),
                                     !.state.current = "MxSingleQuote",
                                     !.hadWord = TRUE])
                 ELSE add(u, cc)
            ELSE IF cc = ChDQuote
            THEN IF ~u.state.dquote
                 THEN cont([u EXCEPT !.sstack = push(@, u.state),
                                     !.state = [current |-> "MxDoubleQuote",
                                                dquote |-> TRUE],
                                     !.hadWord = TRUE])
                 ELSE add(u, cc)
            ELSE IF u.state.current = "MxSubst"
            THEN IF cc = ChRBrace THEN cont(popped) ELSE cont(u)
            ELSE IF cc = 41
            THEN IF u.state.current = "MxMath"
                 THEN IF u.pos + 1 >= len THEN brk([u EXCEPT !.pos = u.pos + 1])
                      ELSE IF At(str, u.pos + 1) = 41
                      THEN cont([popped EXCEPT !.pos = u.pos + 1,
                                               !.ostack = pop(@)])
                      ELSE cont([u EXCEPT !.pos = top(u.ostack),
                                          !.ostack = pop(@),
                                          !.state = paren,
                                          !.sstack = push(@, paren)])
                 ELSE IF u.state.current = "MxParen" THEN cont(popped)
                 ELSE brk(u)
            ELSE IF cc = 40
            THEN cont([u EXCEPT !.sstack = push(@, u.state),
                                !.state.current = "MxParen",
                                !.simple = FALSE, !.hadWord = TRUE])
            ELSE IF itUnixOperator(cc)
            THEN IF u.sstack = <<>> THEN brk(u) ELSE add(u, cc)
            ELSE IF cc = ChSpace \/ cc = ChTab
            THEN IF ~u.hadWord THEN cont(u)
                 ELSE IF u.sstack = <<>> THEN brk(u) ELSE add(u, cc)
            ELSE add(u, cc)

\* bool ProcessArgs::ArgIterator::next(): the value returned and the
\* iterator after the call
next(it, osType) ==
    IF osType = "win"
    THEN itWinLoop(it, it.m_pos,
                   [pos |-> it.m_pos, shellState |-> "ShellBasic",
                    crtState |-> "CrtBasic", varState |-> "NoVar",
                    bslashes |-> 0, simple |-> TRUE, value |-> <<>>])
    ELSE itUnixLoop(it, it.m_pos,
                    [pos |-> it.m_pos,
                     state |-> [current |-> "MxBasic", dquote |-> FALSE],
                     sstack |-> <<>>, ostack |-> <<>>, hadWord |-> FALSE,
                     simple |-> TRUE, value |-> <<>>])

\* QString::remove(position, n), 0 <= position: what lies beyond the end is
\* not there to remove
remove(str, position, n) ==
    IF position >= Len(str) \/ n <= 0 THEN str
    ELSE IF n >= Len(str) - position THEN SubSeq(str, 1, position)
    ELSE SubSeq(str, 1, position) \o SubSeq(str, position + n + 1, Len(str))

RECURSIVE itSkipSpace(_, _)
\* while (m_pos < m_str->length() && m_str->at(m_pos).isSpace()) m_pos++
itSkipSpace(str, p) ==
    IF p < Len(str) /\ isSpace(At(str, p)) THEN itSkipSpace(str, p + 1) ELSE p

\* void ProcessArgs::ArgIterator::deleteArg()
deleteArg(it) ==
    LET pos == IF it.m_prev = 0 THEN itSkipSpace(it.m_str, it.m_pos) ELSE it.m_pos
    IN  [it EXCEPT !.m_str = remove(it.m_str, it.m_prev, pos - it.m_prev),
                   !.m_pos = it.m_prev]

\* QString::insert(i, t), 0 <= i: beyond the end the string is first
\* extended with spaces up to i
insert(str, i, t) ==
    IF i > Len(str)
    THEN str \o [k \in 1..(i - Len(str)) |-> ChSpace] \o t
    ELSE insertAt(str, i, t)

\* void ProcessArgs::ArgIterator::appendArg(const QString &str), on a host
\* of type host: quoteArg(str) quotes for HostOsInfo::hostOs()
appendArg(it, str, host) ==
    LET qstr == quoteArg(str, host)
    IN  [it EXCEPT !.m_str = IF it.m_pos = 0
                             THEN insert(it.m_str, 0, Append(qstr, ChSpace))
                             ELSE insert(it.m_str, it.m_pos, <<ChSpace>> \o qstr),
                   !.m_pos = it.m_pos + Len(qstr) + 1]

\* the number of next() calls of the walk that returned true
Yielded(w) == Cardinality({i \in 1..Len(w) : w[i].ret})

\* QString str = args; ArgIterator ait(&str, os);  (at the first call)
\* ok = ait.next(); simple = ait.isSimple(); value = ait.value()
NextArg ==
    /\ pc \in {"input", "iter", "deleted"}
    /\ argList = <<>>
    /\ IF walk = <<>> THEN TRUE ELSE walk[Len(walk)].ret
    /\ LET res == next(IF pc = "input" THEN ArgIterator(args) ELSE iter, os)
       IN  /\ iter' = res.it
           /\ walk' = Append(walk, [ret |-> res.ret, simple |-> res.it.m_simple,
                                    value |-> res.it.m_value])
    /\ pc' = "iter"
    /\ UNCHANGED <<os, argList, args, quoted, abortOnMeta, env, errIn, err, ret, deleted, appended>>
    /\ UNCHANGED notIter

\* ait.deleteArg(), once, after a next() call that returned true or after
\* the final one that returned false
DeleteArg ==
    /\ pc = "iter"
    /\ deleted = 0
    /\ Yielded(walk) > 0
    /\ iter' = deleteArg(iter)
    /\ deleted' = Yielded(walk)
    /\ pc' = "deleted"
    /\ UNCHANGED <<os, argList, args, quoted, abortOnMeta, env, errIn, err, ret, walk, appended>>
    /\ UNCHANGED notIter

\* ait.appendArg(str) on a host of type host, once: before the first next()
\* call, after a call that returned true or after the final one
AppendArg(str, host) ==
    /\ pc \in {"input", "iter"}
    /\ argList = <<>>
    /\ appended = <<>>
    /\ iter' = appendArg(IF pc = "input" THEN ArgIterator(args) ELSE iter, str, host)
    /\ appended' = <<str>>
    /\ hostOs' = host
    /\ pc' = "appended"
    /\ UNCHANGED <<os, argList, args, quoted, abortOnMeta, env, errIn, err, ret>>
    /\ UNCHANGED <<walk, deleted>>
    /\ UNCHANGED <<command, shell, outCmd, outArgs, prepOk, macroVars, chanVars, procVars, readVars>>



(***************************************************************************)
(* A client walks an ArgIterator over a command line and may delete one    *)
(* argument.                                                               *)
(***************************************************************************)
\* Unix: a space ' " \ $ | `
IterUnixToks ==
    {<<97>>, <<ChSpace>>, <<ChSQuote>>, <<ChDQuote>>, <<ChBackslash>>,
     <<ChDollar>>, <<124>>, <<ChBacktick>>}

\* Windows: a space " \ ^ % |
IterWinToks ==
    {<<97>>, <<ChSpace>>, <<ChDQuote>>, <<ChBackslash>>, <<ChCaret>>,
     <<ChPercent>>, <<124>>}

IterMaxLen == 5

InitIterate == InitFor("unix") \/ InitFor("win")

NextIterate ==
    \/ \E tok \in (IF os = "unix" THEN IterUnixToks ELSE IterWinToks) :
          TypeCmd(tok, IterMaxLen)
    \/ NextArg
    \/ DeleteArg

SpecIterate == InitIterate /\ [][NextIterate]_vars

\* the walk went to the end (the last next() returned false), nothing deleted
WalkDone ==
    pc = "iter" /\ deleted = 0 /\ walk # <<>> /\ ~walk[Len(walk)].ret

\* the words splitArgs gives for s, without an environment
SplitWords(s, osType, ab) == splitArgs(s, osType, ab, TRUE, "SplitOk", NullEnv, <<>>, hostOs).ret

\* the walk w yielded as many arguments as r has words, and every argument
\* flagged simple has the value of its word
SameWords(w, r) ==
    /\ Yielded(w) = Len(r)
    /\ \A i \in 1..Len(r) : w[i].simple => w[i].value = r[i]

\* C18 as stated: for every command line, the arguments next() yields until
\* it returns false are the words of splitArgs on that line for the same
\* platform (with abortOnMeta or without), for the arguments flagged simple.
C18_WalkYieldsSplitWords ==
    WalkDone => \E ab \in BOOLEAN : SameWords(walk, SplitWords(args, os, ab))


\* a command line of words, white space and terminated quoting only: on
\* Unix no $, ` or |, on Windows no ", ^ or |
PlainLine(s, osType) ==
    IF osType = "unix"
    THEN /\ QuoteState(s, 1, "basic") = "basic"
         /\ ~Holds(s, ChDollar) /\ ~Holds(s, ChBacktick) /\ ~Holds(s, 124)
    ELSE ~Holds(s, ChDQuote) /\ ~Holds(s, ChCaret) /\ ~Holds(s, 124)

\* the same for the plain command lines, with the splitArgs default
\* abortOnMeta = false
C18_WalkYieldsSplitWordsPlain ==
    (WalkDone /\ PlainLine(args, os)) => SameWords(walk, SplitWords(args, os, FALSE))

\* C19 as stated: on both platforms, when next() returns false the cursor
\* is at the end of the string and every word of the string (as splitArgs
\* gives them, with abortOnMeta or without) was yielded by an earlier call.
C19_FalseOnlyAtEnd ==
    WalkDone => /\ iter.m_pos = Len(args)
                /\ \E ab \in BOOLEAN : Len(SplitWords(args, os, ab)) <= Yielded(walk)

\* the same for the plain command lines
C19_FalseOnlyAtEndPlain ==
    (WalkDone /\ PlainLine(args, os))
    => /\ iter.m_pos = Len(args)
       /\ Len(SplitWords(args, os, FALSE)) = Yielded(walk)

\* the list r without its k-th word
Without(r, k) == SubSeq(r, 1, k - 1) \o SubSeq(r, k + 1, Len(r))

\* deleteArg was called for word k of r: splitting the string again gives r
\* without word k, and the next call of next() yields the former word k + 1
\* (or returns false when word k was the last)
DeletedWord(r, k, ab) ==
    /\ k <= Len(r)
    /\ SplitWords(iter.m_str, os, ab) = Without(r, k)
    /\ LET n == next(iter, os)
       IN  IF k < Len(r)
           THEN n.ret /\ (n.it.m_simple => n.it.m_value = r[k + 1])
           ELSE ~n.ret

\* C20 as stated: after deleteArg, called when next() yielded the k-th
\* argument or returned false after the last one, splitting the string
\* again gives the original words (as splitArgs gives them, with
\* abortOnMeta or without) with only word k removed, and the next call of
\* next() yields the former word k + 1.
C20_DeleteRemovesOneWord ==
    pc = "deleted"
    => \E ab \in BOOLEAN : DeletedWord(SplitWords(args, os, ab), deleted, ab)

\* the same for the plain command lines
C20_DeleteRemovesOneWordPlain ==
    (pc = "deleted" /\ PlainLine(args, os))
    => DeletedWord(SplitWords(args, os, FALSE), deleted, FALSE)


(***************************************************************************)
(* A client walks an ArgIterator over a command line and appends one       *)
(* argument at the cursor.                                                 *)
(***************************************************************************)
\* Unix: a space ' " \ $
AppendUnixToks ==
    {<<97>>, <<ChSpace>>, <<ChSQuote>>, <<ChDQuote>>, <<ChBackslash>>, <<ChDollar>>}

\* Windows: a space " \ |
AppendWinToks == {<<97>>, <<ChSpace>>, <<ChDQuote>>, <<ChBackslash>>, <<124>>}

AppendMaxLen == 4

\* the arguments appended: the empty one, b, "b b", a ' and a "
AppendValues == {<<>>, <<98>>, <<98, ChSpace, 98>>, <<ChSQuote>>, <<ChDQuote>>}

InitAppend == InitFor("unix") \/ InitFor("win")

NextAppend ==
    \/ \E tok \in (IF os = "unix" THEN AppendUnixToks ELSE AppendWinToks) :
          TypeCmd(tok, AppendMaxLen)
    \/ NextArg
    \/ \E str \in AppendValues, host \in {"unix", "win"} : AppendArg(str, host)

SpecAppend == InitAppend /\ [][NextAppend]_vars

\* the list r with the word s put in after its first k words
WithWord(r, k, s) == SubSeq(r, 1, k) \o <<s>> \o SubSeq(r, k + 1, Len(r))

\* the string t is the string s with the text ins put in at some position,
\* and the cursor pos is at or past the end of that text
InsertedAt(t, s, ins, pos) ==
    \E p \in 0..Len(s) :
        /\ t = SubSeq(s, 1, p) \o ins \o SubSeq(s, p + 1, Len(s))
        /\ pos >= p + Len(ins) - 1

\* appendArg(s) was called after k arguments of the list r were yielded:
\* the string is the original one with quoteArg(s) and one space put in,
\* splitting it again gives r with s after its first k words, and the next
\* call of next() yields the former word k + 1 (or returns false when
\* there is none)
AppendedWord(r, k, s, ab) ==
    /\ k <= Len(r)
    /\ LET q == quoteArg(s, hostOs)
       IN  \/ InsertedAt(iter.m_str, args, Append(q, ChSpace), iter.m_pos)
           \/ InsertedAt(iter.m_str, args, <<ChSpace>> \o q, iter.m_pos)
    /\ SplitWords(iter.m_str, os, ab) = WithWord(r, k, s)
    /\ LET n == next(iter, os)
       IN  IF k < Len(r)
           THEN n.ret /\ (n.it.m_simple => n.it.m_value = r[k + 1])
           ELSE ~n.ret

\* C21 as stated: appendArg(s), called with the cursor after k yielded
\* arguments (k >= 0, also on an empty string), inserts quoteArg(s) with
\* exactly one separating space so that splitting the string again gives
\* the original words with s inserted at index k and all other words
\* unchanged, and the next call of next() yields the former word k + 1.
C21_AppendInsertsWord ==
    pc = "appended"
    => \E ab \in BOOLEAN :
           AppendedWord(SplitWords(args, os, ab), Yielded(walk), appended[1], ab)

\* the same for the plain command lines, the iterator made for the platform
\* of the host (on Windows the ^ that quoteArg puts around a " is taken out
\* by the split with abortOnMeta only)
C21_AppendInsertsWordPlain ==
    (pc = "appended" /\ hostOs = os /\ PlainLine(args, os))
    => \E ab \in BOOLEAN :
           AppendedWord(SplitWords(args, os, ab), Yielded(walk), appended[1], ab)


(***************************************************************************)
(* QtcProcess::normalizeNewlines and Internal::ChannelBuffer.  A           *)
(* QByteArray is a sequence of bytes; the QTextCodec is one of Codecs.     *)
(***************************************************************************)
ChCR == 13
ChReplacement == 65533

RECURSIVE unique(_, _, _)
\* std::unique(res.begin(), res.end(), both-are-CR) followed by the chop:
\* of every run of '\r' the first is kept (i is 1-based, acc the kept text)
unique(res, i, acc) ==
    IF i > Len(res) THEN acc
    ELSE IF acc # <<>> /\ acc[Len(acc)] = ChCR /\ res[i] = ChCR
         THEN unique(res, i + 1, acc)
         ELSE unique(res, i + 1, Append(acc, res[i]))

RECURSIVE replaceCrLf(_, _, _)
\* res.replace("\r\n", "\n"): the matches are found from the left in the
\* text as it was, each replaced once
replaceCrLf(res, i, acc) ==
    IF i > Len(res) THEN acc
    ELSE IF i < Len(res) /\ res[i] = ChCR /\ res[i + 1] = ChNewline
         THEN replaceCrLf(res, i + 2, Append(acc, ChNewline))
         ELSE replaceCrLf(res, i + 1, Append(acc, res[i]))

\* normalizeNewlines without the std::unique pass
normalizeNewlinesNoUnique(text) == replaceCrLf(text, 1, <<>>)

\* QString QtcProcess::normalizeNewlines(const QString &text)
normalizeNewlines(text) == replaceCrLf(unique(text, 1, <<>>), 1, <<>>)

\* UTF-8: the first byte of a two-byte character, a continuation byte
isLead2(b) == b >= 194 /\ b <= 223
isContinuation(b) == b >= 128 /\ b <= 191

RECURSIVE utf8(_, _, _, _)
\* the UTF-8 decoder over the bytes b from index i (1-based), for one- and
\* two-byte characters: a byte that is no character gives U+FFFD; an
\* unfinished character at the end is kept as state when the call has a
\* ConverterState (stateful) and gives U+FFFD when it has none
utf8(b, i, acc, stateful) ==
    IF i > Len(b) THEN [text |-> acc, state |-> <<>>]
    ELSE IF b[i] < 128 THEN utf8(b, i + 1, Append(acc, b[i]), stateful)
    ELSE IF ~isLead2(b[i]) THEN utf8(b, i + 1, Append(acc, ChReplacement), stateful)
    ELSE IF i = Len(b)
         THEN IF stateful THEN [text |-> acc, state |-> <<b[i]>>]
              ELSE [text |-> Append(acc, ChReplacement), state |-> <<>>]
    ELSE IF isContinuation(b[i + 1])
         THEN utf8(b, i + 2, Append(acc, (b[i] - 192) * 64 + (b[i + 1] - 128)), stateful)
         ELSE utf8(b, i + 1, Append(acc, ChReplacement), stateful)

\* codec->toUnicode(start, len, state): the bytes kept in the state are
\* decoded in front of the new ones; in ISO 8859-1 every byte is the
\* character of its value and the decoder keeps nothing.  With no codec
\* ("null") the call is made through a null pointer: nothing is returned
\* and the program is gone (crashed)
toUnicode(codec, bytes, state) ==
    IF codec = "null" THEN [text |-> <<>>, state |-> state, crashed |-> TRUE]
    ELSE IF codec = "latin1" THEN [text |-> bytes, state |-> <<>>, crashed |-> FALSE]
    ELSE [text |-> utf8(state \o bytes, 1, <<>>, TRUE).text,
          state |-> utf8(state \o bytes, 1, <<>>, TRUE).state, crashed |-> FALSE]

\* codec->toUnicode(bytes) of a QTextCodec, one of Codecs, without a state
toUnicodeAll(codec, bytes) ==
    CASE codec = "latin1" -> bytes
      [] codec = "utf8" -> utf8(bytes, 1, <<>>, FALSE).text

\* QString::lastIndexOf(ch), -1 when there is none
lastIndexOf(str, ch) ==
    IF \E i \in 1..Len(str) : str[i] = ch
    THEN (CHOOSE i \in 1..Len(str) : str[i] = ch /\ \A j \in (i + 1)..Len(str) : str[j] # ch) - 1
    ELSE -1

qMax(a, b) == IF a < b THEN b ELSE a

\* void ChannelBuffer::clearForRun(), and the codec as
\* QtcProcessPrivate::clearForRun sets it right after: m_stdOut.codec =
\* m_codec
clearBuffer(buf, m_codec) ==
    [buf EXCEPT !.rawDataPos = 0, !.rawData = <<>>, !.codecState = <<>>,
                !.incompleteLineBuffer = <<>>, !.codec = m_codec]

\* linesRead that decodes the whole of rawData at every call
linesReadFromStart(buf) ==
    LET dec == toUnicode(buf.codec, buf.rawData, buf.codecState)
        text == buf.incompleteLineBuffer \o dec.text
        lastLineIndex == qMax(lastIndexOf(text, ChNewline), lastIndexOf(text, ChCR))
        read == [buf EXCEPT !.codecState = dec.state, !.rawDataPos = Len(buf.rawData)]
    IN  IF dec.crashed
        THEN [buf |-> buf, lines |-> <<>>, decoded |-> <<>>, crashed |-> TRUE]
        ELSE IF lastLineIndex = -1
        THEN [buf |-> [read EXCEPT !.incompleteLineBuffer = text],
              lines |-> <<>>, decoded |-> dec.text, crashed |-> FALSE]
        ELSE [buf |-> [read EXCEPT !.incompleteLineBuffer =
                                       SubSeq(text, lastLineIndex + 2, Len(text))],
              lines |-> normalizeNewlines(SubSeq(text, 1, lastLineIndex + 1)),
              decoded |-> dec.text, crashed |-> FALSE]

\* QString ChannelBuffer::linesRead(): the buffer after the call, the lines
\* returned and the text the codec returned.  When codec->toUnicode was a
\* call through a null pointer the program is gone (crashed), the buffer
\* as it was
linesRead(buf) ==
    LET dec == toUnicode(buf.codec,
                         SubSeq(buf.rawData, buf.rawDataPos + 1, Len(buf.rawData)),
                         buf.codecState)
        text == buf.incompleteLineBuffer \o dec.text
        lastLineIndex == qMax(lastIndexOf(text, ChNewline), lastIndexOf(text, ChCR))
        read == [buf EXCEPT !.codecState = dec.state, !.rawDataPos = Len(buf.rawData)]
    IN  IF dec.crashed
        THEN [buf |-> buf, lines |-> <<>>, decoded |-> <<>>, crashed |-> TRUE]
        ELSE IF lastLineIndex = -1
        THEN [buf |-> [read EXCEPT !.incompleteLineBuffer = text],
              lines |-> <<>>, decoded |-> dec.text, crashed |-> FALSE]
        ELSE [buf |-> [read EXCEPT !.incompleteLineBuffer =
                                       SubSeq(text, lastLineIndex + 2, Len(text))],
              lines |-> normalizeNewlines(SubSeq(text, 1, lastLineIndex + 1)),
              decoded |-> dec.text, crashed |-> FALSE]

\* void ChannelBuffer::append(const QByteArray &text, bool emitSignals): the
\* buffer after the call, the text the callback was called with (none: <<>>),
\* the text the codec returned, and whether linesRead ended the program
append(buf, text, emitSignals) ==
    IF text = <<>> THEN [buf |-> buf, lines |-> <<>>, decoded |-> <<>>, crashed |-> FALSE]
    ELSE LET added == [buf EXCEPT !.rawData = @ \o text]
         IN  IF ~emitSignals \/ ~buf.outputCallback
             THEN [buf |-> added, lines |-> <<>>, decoded |-> <<>>, crashed |-> FALSE]
             ELSE linesRead(added)

\* the buffer of the channel ch
Buf(ch) == IF ch = "out" THEN m_stdOut ELSE m_stdErr

\* everything the slots and the runs touch: d (the QtcProcessPrivate), out
\* and err (m_stdOut and m_stdErr), child, hist and at
World ==
    [d |-> priv, out |-> m_stdOut, err |-> m_stdErr, child |-> child, hist |-> hist,
     at |-> at]

\* no call of the client is under way: no run, no wait, and the program is
\* there
Idle == priv.m_eventLoop = "idle" /\ at = NoWait

\* the client, between its calls, may call a setter: it has made fewer than
\* maxCalls such calls and fewer than maxRuns runs
MayConfigure(maxCalls, maxRuns) ==
    /\ Idle
    /\ hist.calls < maxCalls
    /\ hist.runs < maxRuns

\* a setter has stored d in *d
Configured(d) ==
    /\ priv # d
    /\ priv' = d
    /\ hist' = [hist EXCEPT !.calls = @ + 1]
    /\ UNCHANGED <<child, at, codecForLocale>>
    /\ UNCHANGED <<splitVars, prepVars, macroVars, iterVars, chanVars, readVars>>

\* QtcProcess::setStdOutCallback / setStdErrCallback with a callback
SetCallback(ch, maxCalls, maxRuns) ==
    /\ pc = "input"
    /\ MayConfigure(maxCalls, maxRuns)
    /\ ~Buf(ch).outputCallback
    /\ IF ch = "out"
       THEN m_stdOut' = [m_stdOut EXCEPT !.outputCallback = TRUE] /\ UNCHANGED m_stdErr
       ELSE m_stdErr' = [m_stdErr EXCEPT !.outputCallback = TRUE] /\ UNCHANGED m_stdOut
    /\ hist' = [hist EXCEPT !.calls = @ + 1]
    /\ UNCHANGED <<priv, child, at, codecForLocale>>
    /\ UNCHANGED <<emitted, decoded, chunks, bulk>>
    /\ UNCHANGED <<splitVars, prepVars, macroVars, iterVars, readVars>>

\* void QtcProcessPrivate::clearForRun()
clearForRun(w) ==
    [w EXCEPT !.d.m_hangTimerCount = 0,
              !.out = clearBuffer(@, w.d.m_codec),
              !.err = clearBuffer(@, w.d.m_codec),
              !.d.m_result = [clear(@) EXCEPT !.codec = w.d.m_codec],
              !.d.m_startFailure = FALSE]

\* void QtcProcess::setCodec(QTextCodec *c) with a codec (a null pointer is
\* refused): the codec of the runs that begin after the call
SetCodec(c, maxCalls, maxRuns) ==
    /\ MayConfigure(maxCalls, maxRuns)
    /\ Configured([priv EXCEPT !.m_codec = c])

\* d->clearForRun() at the start of a run: both buffers and the result are
\* cleared and take the codec m_codec
ClearChannel ==
    /\ pc = "input"
    /\ at = NoWait
    /\ priv' = clearForRun(World).d
    /\ m_stdOut' = clearForRun(World).out
    /\ m_stdErr' = clearForRun(World).err
    /\ emitted' = [out |-> <<>>, err |-> <<>>]
    /\ decoded' = [out |-> <<>>, err |-> <<>>]
    /\ chunks' = [out |-> <<>>, err |-> <<>>]
    /\ UNCHANGED <<bulk, child, hist, at, codecForLocale>>
    /\ UNCHANGED <<splitVars, prepVars, macroVars, iterVars, readVars>>

\* m_stdOut.append(text, emitSignals) (the same for m_stdErr).  On a
\* buffer that no clearForRun has given a codec, an append that reads lines
\* is the end of the program
ChannelAppend(ch, text, emitSignals, maxBytes, maxChunks) ==
    /\ pc = "input"
    /\ at = NoWait
    /\ Len(Buf(ch).rawData) + Len(text) <= maxBytes
    /\ Len(chunks[ch]) < maxChunks
    /\ \E res \in {append(Buf(ch), text, emitSignals)} :
          /\ IF ch = "out"
             THEN m_stdOut' = res.buf /\ UNCHANGED m_stdErr
             ELSE m_stdErr' = res.buf /\ UNCHANGED m_stdOut
          /\ emitted' = [emitted EXCEPT ![ch] = @ \o res.lines]
          /\ decoded' = [decoded EXCEPT ![ch] = @ \o res.decoded]
          /\ at' = IF res.crashed THEN Aborted ELSE at
    /\ chunks' = [chunks EXCEPT ![ch] = Append(@, text)]
    /\ UNCHANGED <<bulk, priv, child, hist, codecForLocale>>
    /\ UNCHANGED <<splitVars, prepVars, macroVars, iterVars, readVars>>

\* QString SynchronousProcessResponse::stdOut() / stdErr() const, on the
\* raw bytes of the channel and the codec of the response
stdOut(rawStdOut, codec) == normalizeNewlines(toUnicodeAll(codec, rawStdOut))

\* m_result.rawStdOut = m_stdOut.rawData; text = m_result.stdOut() (the same
\* for stderr): the whole output read at the end of the run
ReadBulk(ch) ==
    /\ pc = "input"
    /\ at = NoWait
    /\ bulk' = [bulk EXCEPT ![ch] = <<stdOut(Buf(ch).rawData, priv.m_result.codec)>>]
    /\ pc' = "bulk"
    /\ UNCHANGED <<os, argList, args, quoted, abortOnMeta, env, errIn, err, ret>>
    /\ UNCHANGED <<m_stdOut, m_stdErr, emitted, decoded, chunks>>
    /\ UNCHANGED <<prepVars, macroVars, iterVars, procVars, readVars>>


\* the client of one SynchronousProcess: the calls of the setters it makes
\* and the runs it begins
ProcMaxCalls == 2
ProcMaxRuns == 2

(***************************************************************************)
(* The output of a run arrives in chunks on stdout; the client reads the   *)
(* lines through the callback and the whole text at the end.               *)
(***************************************************************************)
\* a, newline, carriage return and the two bytes of U+00E9
ChanBytes == {97, ChNewline, ChCR, 195, 169}

ChanMaxBytes == 4
ChanMaxChunk == 2
ChanMaxChunks == 3

\* the byte arrays readAllStandardOutput() may return
ChanChunks == StringsUpTo(ChanBytes, ChanMaxChunk)

InitChannel == \E locale \in Codecs : InitWith("unix", locale)

NextChannel ==
    \/ \E c \in Codecs : SetCodec(c, ProcMaxCalls, ProcMaxRuns)
    \/ SetCallback("out", ProcMaxCalls, ProcMaxRuns)
    \/ ClearChannel
    \/ \E text \in ChanChunks, emitSignals \in BOOLEAN :
          ChannelAppend("out", text, emitSignals, ChanMaxBytes, ChanMaxChunks)
    \/ ReadBulk("out")

SpecChannel == InitChannel /\ [][NextChannel]_vars

\* everything appended to stdout went through linesRead
AllDecoded == m_stdOut.codec # "null" /\ m_stdOut.rawDataPos = Len(m_stdOut.rawData)

\* a single append of the bytes B to a buffer with a callback, cleared with
\* the codec of m_stdOut
WholeAppend(B) ==
    append([clearBuffer(ChannelBuffer, m_stdOut.codec) EXCEPT !.outputCallback = TRUE],
           B, TRUE)

\* C22: for any bytes B and any split of B into chunks appended one after
\* the other (also a split inside a multi-byte character), the text decoded
\* across the calls is the text a single append(B) decodes, and the decoder
\* is left in the same state: no byte is decoded twice or skipped.
C22_SplitDecodesAsWhole ==
    AllDecoded
    => /\ decoded.out = WholeAppend(m_stdOut.rawData).decoded
       /\ m_stdOut.codecState = WholeAppend(m_stdOut.rawData).buf.codecState

\* C22 witness: the two bytes of U+00E9 were appended in two calls, the
\* second one completed the character
C22_Witness ==
    /\ AllDecoded
    /\ chunks.out = <<<<97, 195>>, <<169, 97>>>>
    /\ decoded.out = <<97, 233, 97>>

\* C23 as stated: for any sequence of incremental appends, the texts
\* delivered to the callback followed by the pending tail are
\* normalizeNewlines applied once to the whole decoded output, the text
\* stdOut() returns, wherever the chunk boundaries fall.
C23_IncrementalEqualsBulk ==
    (pc = "bulk" /\ AllDecoded)
    => emitted.out \o m_stdOut.incompleteLineBuffer = bulk.out[1]

\* no chunk but the last ends in a carriage return
NoBoundaryAfterCR ==
    \A i \in 1..(Len(chunks.out) - 1) :
        chunks.out[i] = <<>> \/ chunks.out[i][Len(chunks.out[i])] # ChCR

\* the same when no chunk boundary follows a carriage return and the output
\* does not end inside a character
C23_IncrementalEqualsBulkWhole ==
    (pc = "bulk" /\ AllDecoded /\ NoBoundaryAfterCR /\ m_stdOut.codecState = <<>>)
    => emitted.out \o m_stdOut.incompleteLineBuffer = bulk.out[1]

\* the text t holds the character a directly followed by the character b
HoldsPair(t, a, b) == \E i \in 1..(Len(t) - 1) : t[i] = a /\ t[i + 1] = b

\* the text t without the characters c
Strip(t, c) == SelectSeq(t, LAMBDA x : x # c)

RECURSIVE DropCRs(_, _)
\* the text t from index i without every '\r' that is directly followed by
\* a '\r' or a '\n'
DropCRs(t, i) ==
    IF i > Len(t) THEN <<>>
    ELSE IF t[i] = ChCR /\ i < Len(t) /\ t[i + 1] \in {ChCR, ChNewline}
         THEN DropCRs(t, i + 1)
         ELSE <<t[i]>> \o DropCRs(t, i + 1)

\* C24: the normalized text is the text with every run of '\r' collapsed to
\* one and then every '\r\n' replaced by '\n': it holds neither '\r\r' nor
\* '\r\n', all other characters are kept in order, and normalizing it again
\* changes nothing.
C24_NormalizeNewlines ==
    pc = "bulk"
    => LET n == bulk.out[1]
           t == toUnicodeAll(priv.m_result.codec, m_stdOut.rawData)
       IN  /\ ~HoldsPair(n, ChCR, ChCR)
           /\ ~HoldsPair(n, ChCR, ChNewline)
           /\ Strip(n, ChCR) = Strip(t, ChCR)
           /\ n = DropCRs(t, 1)
           /\ normalizeNewlines(n) = n

\* C24 witness: \r \r \n a was read as \n a
C24_Witness ==
    /\ pc = "bulk"
    /\ m_stdOut.rawData = <<ChCR, ChCR, ChNewline, 97>>
    /\ bulk.out = <<<<ChNewline, 97>>>>


(***************************************************************************)
(* SynchronousProcess: run() with its event loop, timer and slots,         *)
(* runBlocking(), start(), and the calls that stop the child.  The slots   *)
(* are operators on the record w of everything they touch: d (the          *)
(* QtcProcessPrivate), out and err (m_stdOut and m_stdErr), child (the     *)
(* QProcess side), hist and at.  A child is a program that may or may not  *)
(* write output (talks), exit on its own (selfExit), on terminate() dies   *)
(* of the signal, exits normally or ignores it (onTerminate), and may      *)
(* outlive the wait that follows kill() (slowKill).  A function that       *)
(* waits for the child (waitForStarted, waitForFinished) stands in the     *)
(* wait, at, while the slots run, and goes on when the wait is over.       *)
(***************************************************************************)
\* what QProcess::exitCode() gives for a child that died of a signal
CrashExitCode == 15


\* a program that cannot be started
FailingChild == [NoChild EXCEPT !.state = "Starting"]

\* the programs that start
Children ==
    {c \in [state : {"Running"}, talks : BOOLEAN, selfExit : BOOLEAN,
            onTerminate : {"die", "exit", "ignore"}, slowKill : BOOLEAN,
            termSent : {FALSE}, killSent : {FALSE}, error : {"UnknownError"}] :
        c.slowKill => c.onTerminate = "ignore"}

\* SynchronousProcessResponse::Result defaultExitCodeInterpreter(int code)
defaultExitCodeInterpreter(code) == IF code # 0 THEN "FinishedError" ELSE "Finished"

\* the functions a client hands to setExitCodeInterpreter: the default, one
\* that gives Finished and one that gives FinishedError for every exit code
Interpreters == {"default", "allFinished", "allFinishedError"}

\* d->m_exitCodeInterpreter(exitCode)
m_exitCodeInterpreter(f, code) ==
    IF f = "allFinished" THEN "Finished"
    ELSE IF f = "allFinishedError" THEN "FinishedError"
    ELSE defaultExitCodeInterpreter(code)

\* m_eventLoop.quit(): ends exec() when it is running
quit(w) == IF w.d.m_eventLoop = "exec" THEN [w EXCEPT !.d.m_eventLoop = "quit"] ELSE w

\* slotFinished that does not look for a Hang latched before
slotFinishedOverHang(w, exitCode, e) ==
    quit(IF e = "NormalExit"
         THEN [w EXCEPT !.d.m_hangTimerCount = 0,
                        !.d.m_result.result =
                            m_exitCodeInterpreter(w.d.m_exitCodeInterpreter, exitCode),
                        !.d.m_result.exitCode = exitCode]
         ELSE [w EXCEPT !.d.m_hangTimerCount = 0,
                        !.d.m_result.result = "TerminatedAbnormally",
                        !.d.m_result.exitCode = -1])

\* void QtcProcessPrivate::slotFinished(int exitCode, QProcess::ExitStatus e)
slotFinished(w, exitCode, e) ==
    quit(IF e = "NormalExit"
         THEN [w EXCEPT !.d.m_hangTimerCount = 0,
                        !.d.m_result.result =
                            m_exitCodeInterpreter(w.d.m_exitCodeInterpreter, exitCode),
                        !.d.m_result.exitCode = exitCode]
         ELSE [w EXCEPT !.d.m_hangTimerCount = 0,
                        !.d.m_result.result = IF @ # "Hang" THEN "TerminatedAbnormally" ELSE @,
                        !.d.m_result.exitCode = -1])

\* void QtcProcessPrivate::slotError(QProcess::ProcessError e)
slotError(w) ==
    quit([w EXCEPT !.d.m_hangTimerCount = 0,
                   !.d.m_result.result = IF @ # "Hang" THEN "StartFailed" ELSE @,
                   !.d.m_startFailure = TRUE])

\* the bytes read from the channels in the run, up to its return
heard(w, ch, bytes) ==
    IF w.hist.returned # <<>> THEN w.hist.read
    ELSE [w.hist.read EXCEPT ![ch] = @ \o bytes]

\* the program after a slot that called append: gone when linesRead made
\* its call through a null pointer
afterAppend(w, res) == IF res.crashed THEN [w EXCEPT !.at = Aborted] ELSE w

\* the readyRead slots with the one of stderr leaving the hang counter alone
readyReadOutOnly(w, ch, bytes) ==
    IF ch = "out"
    THEN afterAppend([w EXCEPT !.d.m_hangTimerCount = 0, !.out = append(@, bytes, TRUE).buf,
                            !.hist.silent = 0, !.hist.read = heard(w, "out", bytes)],
                  append(w.out, bytes, TRUE))
    ELSE afterAppend([w EXCEPT !.err = append(@, bytes, TRUE).buf,
                            !.hist.silent = 0, !.hist.read = heard(w, "err", bytes)],
                  append(w.err, bytes, TRUE))

\* the slots of readyReadStandardOutput and readyReadStandardError:
\* d->m_hangTimerCount = 0; d->m_stdOut.append(readAllStandardOutput(), true)
readyRead(w, ch, bytes) ==
    IF ch = "out"
    THEN afterAppend([w EXCEPT !.d.m_hangTimerCount = 0, !.out = append(@, bytes, TRUE).buf,
                            !.hist.silent = 0, !.hist.read = heard(w, "out", bytes)],
                  append(w.out, bytes, TRUE))
    ELSE afterAppend([w EXCEPT !.d.m_hangTimerCount = 0, !.err = append(@, bytes, TRUE).buf,
                            !.hist.silent = 0, !.hist.read = heard(w, "err", bytes)],
                  append(w.err, bytes, TRUE))

\* QProcess sees the child gone: errorOccurred(Crashed) when it died of a
\* signal, then finished(exitCode, exitStatus)
processDied(w, crashed, exitCode) ==
    LET gone == [w EXCEPT !.child.state = "NotRunning", !.child.termSent = FALSE,
                          !.child.killSent = FALSE,
                          !.child.error = IF crashed THEN "Crashed" ELSE @,
                          !.hist.exitCode = IF crashed THEN CrashExitCode ELSE exitCode,
                          !.hist.exitStatus = IF crashed THEN "CrashExit" ELSE "NormalExit",
                          !.hist.diedLatched = w.hist.latched]
    IN  IF crashed
        THEN slotFinished(slotError(gone), CrashExitCode, "CrashExit")
        ELSE slotFinished(gone, exitCode, "NormalExit")

\* QProcess sees that the program cannot be started:
\* errorOccurred(FailedToStart)
failedToStart(w) ==
    slotError([w EXCEPT !.child.state = "NotRunning", !.child.error = "FailedToStart"])

\* QtcProcess::terminate() and QProcess::kill(): the signal reaches a child
\* that is running
terminate(w) ==
    [w EXCEPT !.hist.terminates = @ + 1,
              !.child.termSent = @ \/ w.child.state = "Running"]
kill(w) ==
    [w EXCEPT !.hist.kills = @ + 1,
              !.child.killSent = @ \/ w.child.state = "Running"]

\* the program stands in the wait named wait of the function fn
waiting(w, fn, wait) == [w EXCEPT !.at = [fn |-> fn, wait |-> wait]]

\* what a waitForFinished returns that found the child running or starting:
\* TRUE when the child ran and is gone
finishedInWait(w) == w.child.state = "NotRunning" /\ w.child.error # "FailedToStart"

\* stopProcess has returned to fn; slotTimeout goes on with
\* m_result.result = SynchronousProcessResponse::Hang
stopped(w, fn) ==
    IF fn = "slotTimeout"
    THEN [w EXCEPT !.at = NoWait, !.d.m_result.result = "Hang", !.hist.latched = TRUE]
    ELSE [w EXCEPT !.at = NoWait]

\* stopProcess that leaves it at terminate() and the wait that follows
stopProcessWaitedOnly(w, fn) == stopped(w, fn)

\* stopProcess from the return of its first wait on: if
\* (waitForFinished(300)) return true; kill(); return waitForFinished(300).
\* A waitForFinished that finds no child returns at once
stopProcessWaited(w, fn) ==
    IF finishedInWait(w) THEN stopped(w, fn)
    ELSE IF w.child.state = "NotRunning" THEN stopped(kill(w), fn)
    ELSE waiting(kill(w), fn, "stop2")

\* bool QtcProcess::stopProcess() called by fn, up to its first wait
stopProcess(w, fn) ==
    IF w.child.state = "NotRunning" THEN stopped(w, fn)
    ELSE waiting(terminate(w), fn, "stop1")

\* slotTimeout with the counter over the limit: m_waitingForUser = true;
\* terminate = !m_timeOutMessageBoxEnabled || askToKill(..).  Up to the
\* message box of askToKill, when it shows one; askToKill returns true at
\* once off the thread of the application and in a build without
\* QT_GUI_LIB, and then, as with the message box disabled, m_waitingForUser
\* is false again and slotTimeout goes into q->stopProcess()
escalated(w) ==
    IF w.d.m_timeOutMessageBoxEnabled /\ w.hist.gui
    THEN [w EXCEPT !.d.m_waitingForUser = TRUE, !.hist.asked = @ + 1]
    ELSE stopProcess(w, "slotTimeout")

\* slotTimeout: if (!m_waitingForUser && (++m_hangTimerCount >
\* m_maxHangTimerCount))
counted(w) ==
    IF w.d.m_waitingForUser THEN w
    ELSE IF w.d.m_hangTimerCount + 1 > w.d.m_maxHangTimerCount
    THEN escalated([w EXCEPT !.d.m_hangTimerCount = @ + 1,
                             !.hist.escalations =
                                 Append(@, [silent |-> w.hist.silent,
                                            max |-> w.d.m_maxHangTimerCount])])
    ELSE [w EXCEPT !.d.m_hangTimerCount = @ + 1]

\* one more tick of the timer
ticked(w) == [w EXCEPT !.hist.ticks = @ + 1, !.hist.silent = @ + 1]

\* void QtcProcessPrivate::slotTimeout() up to the message box of askToKill
\* or the first wait of stopProcess.  In askToKill the message box runs an
\* event loop of its own, m_waitingForUser being true
slotTimeout(w) == counted(ticked(w))

\* the same with the hang counter left alone when the user declines
askToKillKeepsCount(w, answer) ==
    LET back == [w EXCEPT !.d.m_waitingForUser = FALSE]
    IN  IF answer THEN stopProcess(back, "slotTimeout")
        ELSE [back EXCEPT !.hist.silent = 0, !.hist.declined = @ + 1]

\* slotTimeout from the return of an askToKill that showed its message box
\* on, up to the first wait of stopProcess
askToKill(w, answer) ==
    LET back == [w EXCEPT !.d.m_waitingForUser = FALSE]
    IN  IF answer THEN stopProcess(back, "slotTimeout")
        ELSE [back EXCEPT !.d.m_hangTimerCount = 0, !.hist.silent = 0,
                          !.hist.declined = @ + 1]

\* a run begins: nothing has happened in it yet
newRun(w, mode) ==
    [w EXCEPT !.hist = [NoHist EXCEPT !.runs = w.hist.runs + 1, !.calls = w.hist.calls,
                                      !.mode = mode]]

\* the run returns d->m_result
returned(w) ==
    [w EXCEPT !.hist.returned = <<w.d.m_result>>,
              !.hist.leftRunning = w.child.state # "NotRunning"]

\* run() and runBlocking(): d->m_stdOut.append(readAllStandardOutput(),
\* false), the same for stderr, and the raw bytes copied into the result.
\* The readyRead slots have read everything before
collect(w) ==
    [w EXCEPT !.out = append(@, <<>>, FALSE).buf,
              !.err = append(@, <<>>, FALSE).buf,
              !.d.m_result.rawStdOut = w.out.rawData,
              !.d.m_result.rawStdErr = w.err.rawData]

\* QProcess::start for the program kind: nothing is started when a child of
\* an earlier call is running or starting, and the call goes on with that
\* child
processStarted(w, kind) ==
    IF w.child.state # "NotRunning"
    THEN [w EXCEPT !.hist.started = w.child.state = "Running", !.hist.adopted = TRUE]
    ELSE [w EXCEPT !.child = kind, !.hist.started = kind.state = "Running"]

\* void QtcProcess::start() called by fn for the program kind, on this
\* machine.  A start failure reported inside start() (immediate) reaches
\* slotError at once; with m_synchronous start() waits for the child:
\* QProcess::waitForFinished()
start(w, kind, immediate, fn) ==
    IF kind.state = "Starting" /\ immediate THEN slotError(w)
    ELSE IF w.d.m_synchronous THEN waiting(processStarted(w, kind), fn, "start")
    ELSE processStarted(w, kind)

\* run() from the return of start() on, up to m_eventLoop.exec(): with a
\* start failure it returns at once.  Nothing of it when start() stands in
\* its wait
runStarted(w) ==
    IF w.at # NoWait THEN w
    ELSE IF w.d.m_startFailure THEN returned(w)
    ELSE [w EXCEPT !.d.m_timer = TRUE, !.d.m_eventLoop = "exec"]

\* runBlocking: if (m_result.result == StartFailed) the result is taken
\* from exitStatus() and the exit code
interpretBlocking(w) ==
    IF w.d.m_result.result # "StartFailed" THEN w
    ELSE IF w.hist.exitStatus # "NormalExit"
    THEN [w EXCEPT !.d.m_result.result = "TerminatedAbnormally"]
    ELSE [w EXCEPT !.d.m_result.result =
                       m_exitCodeInterpreter(w.d.m_exitCodeInterpreter,
                                             w.d.m_result.exitCode)]

\* runBlocking from 'if (state() != QProcess::NotRunning) return' on
endBlocking(w) ==
    IF w.child.state # "NotRunning" THEN returned(w)
    ELSE returned(collect(interpretBlocking(
             [w EXCEPT !.d.m_result.exitCode = w.hist.exitCode])))

\* runBlocking from the return of the wait after terminate() on: if
\* (!waitForFinished(1000)) { kill(); waitForFinished(1000); }
hangTerminated(w) ==
    IF finishedInWait(w) THEN endBlocking(w)
    ELSE waiting(kill(w), "runBlocking", "killed")

\* runBlocking from the return of waitForFinished(m_maxHangTimerCount *
\* 1000) on: when it timed out, m_result.result = Hang; terminate(); and
\* the wait that follows
hangBlocking(w) ==
    IF finishedInWait(w) THEN endBlocking(w)
    ELSE waiting(terminate([w EXCEPT !.d.m_result.result = "Hang",
                                     !.hist.latched = TRUE]),
                 "runBlocking", "terminated")

\* runBlocking from the return of start() on: waitForStarted waits for a
\* program that is starting, and is false for one that is not running;
\* then closeWriteChannel() and waitForFinished(m_maxHangTimerCount * 1000).
\* Nothing of it when start() stands in its wait
startedBlocking(w) ==
    IF w.at # NoWait THEN w
    ELSE IF w.child.state = "Starting" THEN waiting(w, "runBlocking", "started")
    ELSE IF w.child.state = "NotRunning"
    THEN returned([w EXCEPT !.d.m_result.result = "StartFailed"])
    ELSE waiting(w, "runBlocking", "finished")

\* runBlocking: d->m_maxHangTimerCount * 1000, the int handed to
\* waitForStarted and waitForFinished
waitComputed(w, wrap) ==
    [w EXCEPT !.hist.waitMs = <<[max |-> w.d.m_maxHangTimerCount,
                                 ms |-> mulInt(w.d.m_maxHangTimerCount, 1000, wrap)]>>]

\* SynchronousProcessResponse QtcProcess::runBlocking(const CommandLine &cmd)
\* for the program kind on this machine, up to its first wait
runBlocking(w, kind, immediate, wrap) ==
    startedBlocking(start(waitComputed(newRun(clearForRun(w), "runBlocking"), wrap),
                          kind, immediate, "runBlocking"))

\* the function that stood in a wait goes on from the return of the wait
resumed(w, fn, wait) ==
    CASE wait = "start" /\ fn = "run" -> runStarted(w)
      [] wait = "start" /\ fn = "runBlocking" -> startedBlocking(w)
      [] wait = "start" /\ fn = "start" -> w
      [] wait = "started" -> startedBlocking(w)
      [] wait = "finished" -> hangBlocking(w)
      [] wait = "terminated" -> hangTerminated(w)
      [] wait = "killed" -> endBlocking(w)
      [] wait = "stop1" -> stopProcessWaited(w, fn)
      [] wait = "stop2" -> stopped(w, fn)

\* the variables after a call that leaves the world w
Becomes(w) ==
    /\ priv' = w.d
    /\ m_stdOut' = w.out
    /\ m_stdErr' = w.err
    /\ child' = w.child
    /\ hist' = w.hist
    /\ at' = w.at
    /\ UNCHANGED codecForLocale
    /\ UNCHANGED notProc

\* the program stands in a wait for the child
InWait == at.wait # "none"

\* events are delivered by exec() of run() or by the message box of
\* askToKill
Dispatching == (priv.m_eventLoop = "exec" \/ priv.m_waitingForUser) /\ at = NoWait

\* the slots of the child's signals can run: in an event loop of a run, in
\* the one of the client between its calls, or in a wait
Delivering == Dispatching \/ Idle \/ InWait

\* void QtcProcess::setTimeoutS(int timeoutS), between runs
SetTimeoutS(timeoutS, maxCalls, maxRuns) ==
    /\ MayConfigure(maxCalls, maxRuns)
    /\ Configured([priv EXCEPT !.m_maxHangTimerCount =
                                   IF timeoutS > 0 THEN qMax(2, timeoutS)
                                   ELSE IntMax \div 1000])

\* void QtcProcess::setTimeOutMessageBoxEnabled(bool v), between runs
SetTimeOutMessageBoxEnabled(v, maxCalls, maxRuns) ==
    /\ MayConfigure(maxCalls, maxRuns)
    /\ Configured([priv EXCEPT !.m_timeOutMessageBoxEnabled = v])

\* void QtcProcess::setSynchronous(bool on), between runs
SetSynchronous(on, maxCalls, maxRuns) ==
    /\ MayConfigure(maxCalls, maxRuns)
    /\ Configured([priv EXCEPT !.m_synchronous = on])

\* void QtcProcess::setExitCodeInterpreter(const ExitCodeInterpreter &) with
\* a function (an empty one is refused), between runs
SetExitCodeInterpreter(interpreter, maxCalls, maxRuns) ==
    /\ MayConfigure(maxCalls, maxRuns)
    /\ Configured([priv EXCEPT !.m_exitCodeInterpreter = interpreter])

\* QtcProcess::run(cmd) for the program kind on this machine, up to
\* m_eventLoop.exec() or, with m_synchronous, the wait in start(); a start
\* failure reported inside start() (immediate) ends the run at once.  With
\* a child running kind says nothing but whether the command can be
\* prepared.  gui: askToKill can show its message box (a build with
\* QT_GUI_LIB, the call made on the thread of the application)
Run(kind, immediate, gui, maxRuns) ==
    /\ Idle
    /\ child.state # "NotRunning" => kind = FailingChild
    /\ hist.runs < maxRuns
    /\ immediate => kind.state = "Starting"
    /\ Becomes(runStarted(start([newRun(clearForRun(World), "run") EXCEPT
                                     !.hist.gui = gui \/ ~priv.m_timeOutMessageBoxEnabled],
                                kind, immediate, "run")))

\* void QtcProcess::start(), called by the client for the program kind on
\* this machine: the child is started and nothing of *d is prepared for it,
\* no clearForRun, no timer, no event loop.  With a child running kind says
\* nothing but whether the command can be prepared
Start(kind, immediate, maxRuns) ==
    /\ Idle
    /\ child.state # "NotRunning" => kind = FailingChild
    /\ hist.runs < maxRuns
    /\ immediate => kind.state = "Starting"
    /\ Becomes(start(newRun(World, "start"), kind, immediate, "start"))

\* run(cmd), runBlocking(cmd) and start() for a command that needs a
\* device.  run and runBlocking (mode "runDevice", "runBlockingDevice") run
\* it in a QtcProcess of their own, wait for it and return a response of
\* their own: Finished, with the exit code and the output of that process;
\* start (mode "startDevice") hands the process to the hook of the device
\* and returns nothing.  Nothing of *d changes
RunDevice(mode, exitCode, outBytes, errBytes, maxRuns) ==
    /\ Idle
    /\ hist.runs < maxRuns
    /\ IF mode = "startDevice"
       THEN Becomes(newRun(World, mode))
       ELSE Becomes([newRun(World, mode) EXCEPT
                         !.hist.read = [out |-> outBytes, err |-> errBytes],
                         !.hist.returned =
                             <<[result |-> "Finished", exitCode |-> exitCode,
                                codec |-> codecForLocale, rawStdOut |-> outBytes,
                                rawStdErr |-> errBytes]>>])

\* QtcProcess::run(cmd) from the return of m_eventLoop.exec() on
RunReturn ==
    /\ priv.m_eventLoop = "quit"
    /\ ~priv.m_waitingForUser
    /\ at = NoWait
    /\ Becomes(returned([collect(World) EXCEPT !.d.m_timer = FALSE,
                                               !.d.m_eventLoop = "idle"]))

\* the timer fires: slotTimeout(), to its end, to the message box of
\* askToKill or into the first wait of stopProcess
Tick(maxTicks) ==
    /\ Dispatching
    /\ priv.m_timer
    /\ hist.ticks < maxTicks
    /\ Becomes(slotTimeout(World))

\* the message box of askToKill is answered
AskToKill(answer) ==
    /\ priv.m_waitingForUser
    /\ at = NoWait
    /\ Becomes(askToKill(World, answer))

\* readyReadStandardOutput / readyReadStandardError with bytes to read
ReadyRead(ch, bytes, maxBytes) ==
    /\ Delivering
    /\ child.state = "Running"
    /\ child.talks
    /\ Len(Buf(ch).rawData) + Len(bytes) <= maxBytes
    /\ Becomes(readyRead(World, ch, bytes))

\* the child is gone: killed, or ended by the terminate signal the way it
\* takes it, or, when it ignores the signal or got none, exited on its own
ChildExit(crashed, exitCode) ==
    /\ Delivering
    /\ child.state = "Running"
    /\ IF child.killSent THEN crashed
       ELSE IF child.termSent /\ child.onTerminate = "die" THEN crashed
       ELSE IF child.termSent /\ child.onTerminate = "exit" THEN ~crashed
       ELSE child.selfExit
    /\ crashed => exitCode = 0
    /\ Becomes(processDied(World, crashed, exitCode))

\* errorOccurred(FailedToStart) for a program that cannot be started
ProcessError ==
    /\ Delivering
    /\ child.state = "Starting"
    /\ Becomes(failedToStart(World))

\* a wait for the child is over, and the function that stood in it goes on.
\* A wait ends when the child is gone, a program that cannot be started
\* being reported within it.  A child that runs may outlast a wait for its
\* end by start() or runBlocking(), one that ignores terminate() the wait
\* after terminate(), and a slow one the wait after kill()
WaitDone ==
    /\ InWait
    /\ child.state # "Starting"
    /\ child.state = "Running"
       => \/ at.wait \in {"start", "finished"}
          \/ at.wait \in {"terminated", "stop1"} /\ child.onTerminate = "ignore"
          \/ at.wait \in {"killed", "stop2"} /\ child.slowKill
    /\ Becomes(resumed([World EXCEPT !.at = NoWait], at.fn, at.wait))

\* runBlocking(cmd) for the program kind on this machine, up to its first
\* wait
RunBlocking(kind, immediate, wrap, maxRuns) ==
    /\ Idle
    /\ child.state # "NotRunning" => kind = FailingChild
    /\ hist.runs < maxRuns
    /\ immediate => kind.state = "Starting"
    /\ Becomes(runBlocking(World, kind, immediate, wrap))

\* void QtcProcess::terminate() called by the client on a child that runs
Terminate(maxClient) ==
    /\ Idle
    /\ child.state = "Running"
    /\ hist.client < maxClient
    /\ Becomes([terminate(World) EXCEPT !.hist.client = @ + 1])

\* QProcess::kill() called by the client on a child that runs
Kill(maxClient) ==
    /\ Idle
    /\ child.state = "Running"
    /\ hist.client < maxClient
    /\ Becomes([kill(World) EXCEPT !.hist.client = @ + 1])

\* bool QtcProcess::stopProcess() called by the client on a child that is
\* running or starting, up to its first wait
StopProcess(maxClient) ==
    /\ Idle
    /\ child.state # "NotRunning"
    /\ hist.client < maxClient
    /\ Becomes(stopProcess([World EXCEPT !.hist.client = @ + 1], "stopProcess"))


(***************************************************************************)
(* A client configures one SynchronousProcess with its setters, runs       *)
(* programs with run() and runBlocking(), starts them itself with start()  *)
(* and stops them.  With the timeouts of this client the product           *)
(* m_maxHangTimerCount * 1000 of runBlocking fits an int.                  *)
(***************************************************************************)
ProcMaxTicks == 6
ProcMaxBytes == 1
ProcMaxClient == 1

\* the client calls start() itself before its first run only
ProcMaxStarts == 1

\* the arguments of setTimeoutS: two seconds
ProcTimeouts == {2}

\* what readAllStandardOutput() returns in a slot
ProcBytes == {<<97>>}

InitProcess == InitFor("unix")

NextProcess ==
    \/ \E t \in ProcTimeouts : SetTimeoutS(t, ProcMaxCalls, ProcMaxRuns)
    \/ \E v \in BOOLEAN : SetTimeOutMessageBoxEnabled(v, ProcMaxCalls, ProcMaxRuns)
    \/ \E c \in Codecs : SetCodec(c, ProcMaxCalls, ProcMaxRuns)
    \/ \E on \in BOOLEAN : SetSynchronous(on, ProcMaxCalls, ProcMaxRuns)
    \/ \E f \in Interpreters : SetExitCodeInterpreter(f, ProcMaxCalls, ProcMaxRuns)
    \/ \E ch \in {"out", "err"} : SetCallback(ch, ProcMaxCalls, ProcMaxRuns)
    \/ \E kind \in Children \cup {FailingChild}, immediate \in BOOLEAN :
          Start(kind, immediate, ProcMaxStarts)
    \/ \E kind \in Children \cup {FailingChild}, immediate \in BOOLEAN, gui \in BOOLEAN :
          Run(kind, immediate, gui, ProcMaxRuns)
    \/ \E mode \in {"runDevice", "runBlockingDevice", "startDevice"}, exitCode \in {0, 1},
          outBytes \in ProcBytes, errBytes \in {<<>>} :
          RunDevice(mode, exitCode, outBytes, errBytes, ProcMaxRuns)
    \/ RunReturn
    \/ Tick(ProcMaxTicks)
    \/ \E answer \in BOOLEAN : AskToKill(answer)
    \/ \E ch \in {"out", "err"}, bytes \in ProcBytes : ReadyRead(ch, bytes, ProcMaxBytes)
    \/ \E crashed \in BOOLEAN, exitCode \in {0, 1} : ChildExit(crashed, exitCode)
    \/ ProcessError
    \/ WaitDone
    \/ \E kind \in Children \cup {FailingChild}, immediate \in BOOLEAN, wrap \in {FALSE} :
          RunBlocking(kind, immediate, wrap, ProcMaxRuns)
    \/ Terminate(ProcMaxClient)
    \/ Kill(ProcMaxClient)
    \/ StopProcess(ProcMaxClient)

SpecProcess == InitProcess /\ [][NextProcess]_vars

\* a runBlocking call has returned, for a child that it started
BlockingReturned ==
    hist.mode = "runBlocking" /\ hist.returned # <<>> /\ hist.started /\ ~hist.adopted

\* the child never writes output and never exits on its own
SilentForever == ~child.talks /\ ~child.selfExit

\* C25 as stated: runBlocking on a child that starts, never exits on its own
\* and never produces output returns with outcome Hang, having issued
\* terminate and then, only if the child is still running after the grace
\* wait, kill; no child is running when runBlocking returns.
C25_BlockingHangLeavesNoChild ==
    (BlockingReturned /\ SilentForever)
    => /\ hist.returned[1].result = "Hang"
       /\ hist.terminates = 1
       /\ hist.kills = (IF child.onTerminate = "ignore" THEN 1 ELSE 0)
       /\ ~hist.leftRunning

\* the same for the children that die of the terminate signal or are gone
\* within the wait after kill
C25_BlockingHangPromptDeath ==
    (BlockingReturned /\ SilentForever /\ child.onTerminate # "exit" /\ ~hist.leftRunning)
    => /\ hist.returned[1].result = "Hang"
       /\ hist.terminates = 1
       /\ hist.kills = (IF child.onTerminate = "ignore" THEN 1 ELSE 0)

\* the outcome r is Hang unless the child exited normally
HangKept(r) ==
    /\ r.result \notin {"TerminatedAbnormally", "StartFailed"}
    /\ (child.state # "NotRunning" \/ hist.exitStatus = "CrashExit") => r.result = "Hang"

\* C26: in both run modes, once Hang is latched for a run, an abnormal exit
\* of the child or a process error reported afterwards does not change the
\* outcome: it stays Hang, and it is never TerminatedAbnormally or
\* StartFailed, in m_result and in the result the run returns.
C26_HangSurvivesCrash ==
    hist.latched
    => /\ HangKept(priv.m_result)
       /\ hist.returned # <<>> => HangKept(hist.returned[1])

\* C26 witness: an interactive run latched Hang, the child was gone only
\* after that, killed, and the run returned Hang
C26_Witness ==
    /\ hist.mode = "run"
    /\ hist.latched /\ hist.diedLatched
    /\ hist.kills = 1
    /\ hist.exitStatus = "CrashExit"
    /\ child.state = "NotRunning"
    /\ hist.returned # <<>> /\ hist.returned[1].result = "Hang"

\* C27: in an interactive run, data on stdout or stderr resets the hang
\* counter, so the counter never exceeds the ticks elapsed since the start
\* of the run, the last data on either channel or the last declined prompt,
\* and a tick escalates only when more than m_maxHangTimerCount such ticks
\* have elapsed.
C27_EscalationOnlyAfterSilence ==
    /\ priv.m_hangTimerCount <= hist.silent
    /\ \A i \in 1..Len(hist.escalations) :
           hist.escalations[i].silent > hist.escalations[i].max

\* C27 witness: data arrived on stderr only, after the first tick, and the
\* escalation came at the fourth tick
C27_Witness ==
    /\ hist.mode = "run"
    /\ hist.read = [out |-> <<>>, err |-> <<97>>]
    /\ hist.ticks = 4
    /\ hist.escalations = <<[silent |-> 3, max |-> 2]>>

\* C28: with the message box enabled, when the hang threshold is exceeded
\* and the user declines, neither terminate nor kill is issued, the outcome
\* is not set to Hang and the counter is reset, so the child keeps running
\* and the user is asked again only after a further
\* m_maxHangTimerCount + 1 silent ticks.
C28_DeclineKeepsChild ==
    (hist.mode = "run" /\ hist.asked > 0 /\ hist.declined = hist.asked)
    => /\ hist.terminates = 0 /\ hist.kills = 0
       /\ ~hist.latched /\ priv.m_result.result # "Hang"
       /\ priv.m_hangTimerCount <= hist.silent
       /\ (hist.started /\ ~hist.adopted /\ ~child.selfExit) => child.state = "Running"
       /\ \A i \in 1..Len(hist.escalations) :
              hist.escalations[i].silent = hist.escalations[i].max + 1

\* C28 witness: the user declined at the third tick and was asked again at
\* the sixth
C28_Witness ==
    /\ hist.mode = "run"
    /\ hist.asked = 2 /\ hist.declined = 2
    /\ hist.ticks = 6
    /\ child.state = "Running"
    /\ priv.m_hangTimerCount = 0

\* C29 as stated: a second stop request arriving while the first escalation
\* is still under way is a no-op, so terminate is issued to the child at
\* most once per run.
C29_TerminateOnce == hist.client = 0 => hist.terminates <= 1

\* the same for the children that are gone within the wait after kill
C29_TerminateOncePromptDeath ==
    (hist.client = 0 /\ ~child.slowKill) => hist.terminates <= 1

\* an interactive run has just entered its event loop: nothing was read,
\* no tick came and the child has not been heard of
RunStarts ==
    /\ hist.mode = "run" /\ priv.m_eventLoop = "exec"
    /\ hist.ticks = 0 /\ hist.read = [out |-> <<>>, err |-> <<>>]
    /\ child.state \in {"Running", "Starting"}

\* both channel buffers, the hang counter and the result are reset
AllReset ==
    /\ m_stdOut = clearBuffer(m_stdOut, priv.m_codec) /\ m_stdOut.rawData = <<>>
    /\ m_stdErr = clearBuffer(m_stdErr, priv.m_codec) /\ m_stdErr.rawData = <<>>
    /\ priv.m_hangTimerCount = 0
    /\ priv.m_result = [clear(priv.m_result) EXCEPT !.codec = priv.m_codec]
    /\ priv.m_result.rawStdOut = <<>>

\* C30 as stated: across any sequence of runs on the same runner, each run
\* starts with the channel buffers, the hang counter and the result reset,
\* so the raw stdout and stderr of a run's result are exactly the bytes read
\* during that run and nothing from an earlier run.
C30_ResultHoldsThisRun ==
    /\ RunStarts => AllReset
    /\ hist.returned # <<>>
       => /\ hist.returned[1].rawStdOut = hist.read.out
          /\ hist.returned[1].rawStdErr = hist.read.err

\* every run starts reset, in and after a run() or runBlocking() the buffers
\* hold the bytes read since it began and nothing else, and a result
\* returned with no child left running holds them too unless it is StartFailed or
\* TerminatedAbnormally
C30_BuffersHoldThisRun ==
    /\ RunStarts => AllReset
    /\ hist.mode \in {"run", "runBlocking"}
       => /\ hist.returned = <<>> => m_stdOut.rawData = hist.read.out
          /\ hist.returned = <<>> => m_stdErr.rawData = hist.read.err
          /\ (hist.returned # <<>> /\ ~hist.leftRunning
                /\ hist.returned[1].result \notin {"StartFailed", "TerminatedAbnormally"})
             => /\ hist.returned[1].rawStdOut = hist.read.out
                /\ hist.returned[1].rawStdErr = hist.read.err


(***************************************************************************)
(* QtcProcess::readDataFromProcess on a process the caller has started.    *)
(* One step is one pass of its do loop up to the message box of askToKill: *)
(* the wait and the reads of the two channels.  While the message box is   *)
(* open the process may exit.                                              *)
(***************************************************************************)
\* readDataFromProcess up to the loop: a process that is not running is
\* refused
enterRead(r, running, timeoutS, showTimeOutMessageBox) ==
    [NoReading EXCEPT !.stdOut = r.stdOut, !.stdErr = r.stdErr,
                      !.pc = IF running THEN "waiting" ELSE "returned",
                      !.state = IF running THEN "Running" ELSE "NotRunning",
                      !.timeoutS = timeoutS,
                      !.showTimeOutMessageBox = showTimeOutMessageBox]

\* the message box of askToKill is answered: hasData = hang &&
\* showTimeOutMessageBox && !askToKill(program()); while (hasData &&
\* !finished); return finished.  finished is what the last wait left
answered(r, agreed) ==
    IF agreed
    THEN [r EXCEPT !.hasData = FALSE, !.asked = "kill", !.pc = "returned",
                   !.result = r.finished]
    ELSE [r EXCEPT !.hasData = TRUE, !.asked = "wait", !.pc = "waiting"]

\* the end of a pass: const bool hang = !hasData && !finished; hasData =
\* hang && showTimeOutMessageBox && !askToKill(program()); while (hasData &&
\* !finished); return finished.  r holds finished and hasData as the reads
\* left them.  askToKill shows its message box when box is true (a build
\* with QT_GUI_LIB, the call made on the thread of the application), and
\* returns true at once when not
endPass(r, box) ==
    IF ~r.hasData /\ ~r.finished /\ r.showTimeOutMessageBox
    THEN IF box
         THEN [r EXCEPT !.asked = "box", !.pc = "asking"]
         ELSE [r EXCEPT !.hasData = FALSE, !.asked = "nobox", !.pc = "returned",
                        !.result = r.finished]
    ELSE [r EXCEPT !.hasData = FALSE, !.asked = "no", !.pc = "returned",
                   !.result = r.finished]

\* one pass of the do loop of readDataFromProcess, up to the message box
\* of askToKill.  exited: the process is gone when waitForFinished returns;
\* newStdOut, newStdErr: what readAllStandardOutput() and
\* readAllStandardError() return after the wait
readPass(r, exited, newStdOut, newStdErr, box) ==
    endPass([r EXCEPT !.finished = exited,
                      !.state = IF exited THEN "NotRunning" ELSE "Running",
                      !.hasData = r.hasData \/ newStdOut # <<>> \/ newStdErr # <<>>,
                      !.stdOut = @ \o newStdOut,
                      !.stdErr = @ \o newStdErr,
                      !.waits = @ + 1,
                      !.sawData = newStdOut # <<>> \/ newStdErr # <<>>,
                      !.sawExit = exited,
                      !.carried = r.hasData],
            box)

\* bool QtcProcess::readDataFromProcess(int timeoutS, QByteArray *stdOut,
\* QByteArray *stdErr, bool showTimeOutMessageBox) is called
ReadDataFromProcess(running, timeoutS, showTimeOutMessageBox) ==
    /\ reading.pc = "idle"
    /\ reading' = enterRead(reading, running, timeoutS, showTimeOutMessageBox)
    /\ UNCHANGED notRead

\* the loop makes one pass, up to the message box of askToKill.  A wait
\* without timeout (timeoutS <= 0) ends only when the process is gone, and
\* a process that was gone before the wait is found gone
ReadPass(exited, newStdOut, newStdErr, box, maxWaits, maxBytes) ==
    /\ reading.pc = "waiting"
    /\ reading.waits < maxWaits
    /\ reading.timeoutS <= 0 => exited
    /\ reading.state = "NotRunning" => exited
    /\ Len(reading.stdOut) + Len(newStdOut) <= maxBytes
    /\ Len(reading.stdErr) + Len(newStdErr) <= maxBytes
    /\ reading' = readPass(reading, exited, newStdOut, newStdErr, box)
    /\ UNCHANGED notRead

\* the process exits while the message box of askToKill is open
ReadBoxExit ==
    /\ reading.pc = "asking"
    /\ reading.state = "Running"
    /\ reading' = [reading EXCEPT !.state = "NotRunning"]
    /\ UNCHANGED notRead

\* the message box of askToKill is answered, and the pass goes to its end
ReadAnswer(agreed) ==
    /\ reading.pc = "asking"
    /\ reading' = answered(reading, agreed)
    /\ UNCHANGED notRead

\* the caller is done with the call and may make another with the same
\* byte arrays
ReadAgain ==
    /\ reading.pc = "returned"
    /\ reading' = [reading EXCEPT !.pc = "idle"]
    /\ UNCHANGED notRead

ReadMaxWaits == 3
ReadMaxBytes == 2

\* the timeoutS arguments: none and two seconds
ReadTimeouts == {0, 2}

\* what a read of a channel returns: nothing or one byte
ReadBytes == {<<>>, <<97>>, <<98>>}

InitReading == InitFor("unix")

NextReading ==
    \/ \E running \in BOOLEAN, t \in ReadTimeouts, box \in BOOLEAN :
          ReadDataFromProcess(running, t, box)
    \/ \E exited \in BOOLEAN, o \in ReadBytes, e \in ReadBytes, box \in BOOLEAN :
          ReadPass(exited, o, e, box, ReadMaxWaits, ReadMaxBytes)
    \/ ReadBoxExit
    \/ \E agreed \in BOOLEAN : ReadAnswer(agreed)
    \/ ReadAgain

SpecReading == InitReading /\ [][NextReading]_vars

\* the call made at least one wait and returned false
TimedOut == reading.pc = "returned" /\ reading.waits > 0 /\ ~reading.result

\* C31 as stated: readDataFromProcess applies its timeout only after output
\* has stopped: after a wait in which the process wrote to stdout or stderr
\* and did not exit the function keeps waiting, and it returns false only
\* after a wait with no output and no exit and, with the message box
\* enabled, only when the user agreed to kill.
C31_TimeoutOnlyAfterSilence ==
    /\ (reading.waits > 0 /\ reading.sawData /\ ~reading.sawExit) => reading.pc = "waiting"
    /\ TimedOut => /\ ~reading.sawData /\ ~reading.sawExit
                   /\ reading.showTimeOutMessageBox => reading.asked = "kill"

\* what the loop does: it returns what the last wait saw of the exit, so
\* false after any wait that did not see the process gone, output or none;
\* it goes on only after a message box the user declined, and it calls
\* askToKill only after a wait without output and exit that did not follow
\* a declined message box
C31_TimeoutAfterAnyWait ==
    /\ (reading.pc = "returned" /\ reading.waits > 0) => reading.result = reading.sawExit
    /\ (reading.pc = "waiting" /\ reading.waits > 0) => reading.asked = "wait"
    /\ reading.waits > 0
       => (reading.asked # "no"
           <=> /\ ~reading.sawData /\ ~reading.sawExit /\ ~reading.carried
               /\ reading.showTimeOutMessageBox)


(***************************************************************************)
(* The rules of the Microsoft C runtime in doSplitArgsWin: command lines   *)
(* of letters, spaces, double quotes and backslashes are split with        *)
(* abortOnMeta false and no environment.                                   *)
(***************************************************************************)
CrtChars == {97, ChSpace, ChDQuote, ChBackslash}
CrtMaxLen == 8

InitCrt == InitFor("win")

NextCrt ==
    \/ \E c \in CrtChars : TypeCmd(<<c>>, CrtMaxLen)
    \/ SplitArgs(FALSE, "SplitOk", NullEnv)

SpecCrt == InitCrt /\ [][NextCrt]_vars

\* n times the character c
Rep(c, n) == [i \in 1..n |-> c]

\* the command line was split by the rules of the C runtime alone
CrtSplit == pc = "split" /\ os = "win" /\ ~abortOnMeta /\ env.null /\ argList = <<>>

\* args is the command line s, and it was split into the words r
SplitsInto(s, r) == args = s => (ret = r /\ err = "SplitOk")

\* C32: in the Windows tokenization, 2N backslashes followed by a double
\* quote yield N backslashes and the quote opens or closes quoting, 2N+1
\* backslashes followed by a double quote yield N backslashes and a literal
\* quote and leave the quoting state alone, and backslashes not followed by
\* a double quote are copied unchanged.  p, q, r are the lengths of runs of
\* the letter a, k is the number of backslashes, all of them in one run.
C32_BackslashesBeforeQuote ==
    CrtSplit =>
    \A k \in {Cardinality({i \in 1..Len(args) : args[i] = ChBackslash})} \ {0},
       p \in 0..2, q \in 0..2, r \in 0..2 :
       LET P == Rep(97, p)
           Q == Rep(97, q)
           R == Rep(97, r)
           N == k \div 2
           bs == Rep(ChBackslash, k)
           half == Rep(ChBackslash, N)
           sp == <<ChSpace>>
           dq == <<ChDQuote>>
       IN  \* not followed by a quote: before a letter or the end, before
           \* a space, and inside quotes
           /\ SplitsInto(P \o bs \o Q, <<P \o bs \o Q>>)
           /\ q > 0 => SplitsInto(P \o bs \o sp \o Q, <<P \o bs, Q>>)
           /\ SplitsInto(dq \o P \o bs \o sp \o Q \o dq, <<P \o bs \o sp \o Q>>)
           /\ IF k % 2 = 0
              THEN \* the quote opens quoting: the space after it does not split
                   /\ SplitsInto(P \o bs \o dq \o Q \o sp \o R \o dq,
                                 <<P \o half \o Q \o sp \o R>>)
                   \* the quote closes quoting: the space after it splits
                   /\ r > 0 => SplitsInto(dq \o P \o sp \o Q \o bs \o dq \o sp \o R,
                                          <<P \o sp \o Q \o half, R>>)
              ELSE \* a literal quote outside quotes: the space after it splits
                   /\ r > 0 => SplitsInto(P \o bs \o dq \o Q \o sp \o R,
                                          <<P \o half \o dq \o Q, R>>)
                   \* a literal quote inside quotes: the space after it does not
                   /\ SplitsInto(dq \o P \o bs \o dq \o Q \o sp \o R \o dq,
                                 <<P \o half \o dq \o Q \o sp \o R>>)

\* C32 witness: "\\\" a" was split into the one word \" a, and so three
\* backslashes before a quote inside quotes gave one backslash and a quote
C32_Witness ==
    /\ CrtSplit
    /\ args = <<ChDQuote, ChBackslash, ChBackslash, ChBackslash, ChDQuote, ChSpace, 97, ChDQuote>>
    /\ ret = <<(<<ChBackslash, ChDQuote, ChSpace, 97>>)>>

\* command lines of letters, spaces and double quotes
QuoteChars == {97, ChSpace, ChDQuote}
QuoteMaxLen == 9

InitQuotes == InitFor("win")

NextQuotes ==
    \/ \E c \in QuoteChars : TypeCmd(<<c>>, QuoteMaxLen)
    \/ SplitArgs(FALSE, "SplitOk", NullEnv)

SpecQuotes == InitQuotes /\ [][NextQuotes]_vars

\* C33: inside a double-quoted run three consecutive double quotes yield
\* one literal quote and leave the tokenizer in the quoted state, 3N quotes
\* yield N literal quotes, so white space that follows does not split the
\* word.
C33_ThreeQuotesInQuotes ==
    CrtSplit =>
    \A n \in 1..(QuoteMaxLen \div 3), p \in 0..2, q \in 0..2 :
       LET P == Rep(97, p)
           Q == Rep(97, q)
       IN  SplitsInto(<<ChDQuote>> \o P \o Rep(ChDQuote, 3 * n) \o <<ChSpace>> \o Q
                          \o <<ChDQuote>>,
                      <<P \o Rep(ChDQuote, n) \o <<ChSpace>> \o Q>>)

\* C33 witness: a quote, six quotes, a space and a quote were split into
\* the one word of two quotes and a space
C33_Witness ==
    /\ CrtSplit
    /\ args = Rep(ChDQuote, 7) \o <<ChSpace, ChDQuote>>
    /\ ret = <<(<<ChDQuote, ChDQuote, ChSpace>>)>>


(***************************************************************************)
(* expandMacros on Windows over command lines with quotes, backslashes     *)
(* and circumflexes around the macro %m.                                   *)
(***************************************************************************)
MxWinMaxLen == 6

InitMacroWin == InitFor("win")

NextMacroWin ==
    \/ \E tok \in MxWinToks : TypeCmd(tok, MxWinMaxLen)
    \/ \E v \in MxValues : ExpandMacros(MacroName :> v, FALSE)

SpecMacroWin == InitMacroWin /\ [][NextMacroWin]_vars

RECURSIVE CmdStrip(_, _, _)
\* what cmd hands to the program for the text s: a circumflex outside
\* double quotes is taken out and the character after it is kept as it is
CmdStrip(s, i, st) ==
    IF i > Len(s) THEN <<>>
    ELSE LET c == s[i]
         IN  IF st = "basic" /\ c = ChCaret THEN CmdStrip(s, i + 1, "escaped")
             ELSE <<c>> \o CmdStrip(s, i + 1,
                               IF st = "escaped" THEN "basic"
                               ELSE IF c = ChDQuote
                               THEN (IF st = "quoted" THEN "basic" ELSE "quoted")
                               ELSE st)

\* the C runtime is inside double quotes at the end of the text s, which is
\* when a command line that ends there is refused for its open quote
CrtQuotedAfter(s) == doSplitArgsWin(CmdStrip(s, 1, "basic")).err = "BadQuoting"

RECURSIVE WithValue(_, _)
\* the text s with every macro replaced by the text v
WithValue(s, v) ==
    IF s = <<>> THEN <<>>
    ELSE IF MacroAt(s, 1) THEN v \o WithValue(SubSeq(s, 3, Len(s)), v)
    ELSE <<Head(s)>> \o WithValue(Tail(s), v)

\* the value v is put in as it is and is text of a word for cmd and the C
\* runtime: it is not empty and has no special character and no backslash
PutInVerbatim(v) == v # <<>> /\ ~hasSpecialCharsWin(v) /\ ~Holds(v, ChBackslash)

\* at the macro that starts at index i of s, cmd and the C runtime disagree
\* about being inside double quotes.  v is the value of the macros before
\* it; i is the first macro of s or v is put in as it is
OutOfSyncAt(s, i, v) ==
    /\ MacroAt(s, i)
    /\ (\A j \in 1..(i - 1) : ~MacroAt(s, j)) \/ PutInVerbatim(v)
    /\ LET before == WithValue(SubSeq(s, 1, i - 1), v)
       IN  (CmdState(before, 1, "basic") = "quoted") # CrtQuotedAfter(before)

\* expandMacros was called for a Windows command line
ExpandedWin == pc = "expanded" /\ os = "win"

\* C34: Windows expandMacros returns not-ok whenever, at a macro occurrence,
\* the quoting state of cmd and the quoting state of the C runtime disagree
\* about being inside double quotes, and it substitutes nothing then: the
\* caller's string is left as it was.
C34_OutOfSyncRefused ==
    (ExpandedWin /\ \E i \in 1..Len(args) : OutOfSyncAt(args, i, expander[MacroName]))
    => (~mxOk /\ expanded = args)

\* C34 witness: """%m, where the doubled quote closed the quoting of the C
\* runtime and cmd is inside quotes, was refused
C34_Witness ==
    /\ ExpandedWin
    /\ args = <<ChDQuote, ChDQuote, ChDQuote>> \o MacroName
    /\ OutOfSyncAt(args, 4, expander[MacroName])
    /\ ~mxOk /\ expanded = args

\* the text before index i of s as cmd and the C runtime read it, a macro
\* in it standing for a word
WordsBefore(s, i) == WithValue(SubSeq(s, 1, i - 1), <<97>>)

\* the macro at index i of s comes right after a closing double quote: the
\* C runtime is inside double quotes before that quote and outside after it
AfterClosingQuote(s, i) ==
    /\ MacroAt(s, i)
    /\ i > 1 /\ s[i - 1] = ChDQuote
    /\ CrtQuotedAfter(WordsBefore(s, i - 1))
    /\ ~CrtQuotedAfter(WordsBefore(s, i))

\* a double quote comes right after the macro at index i of s, which
\* stands outside double quotes
BeforeOpeningQuote(s, i) ==
    /\ MacroAt(s, i)
    /\ i + 2 <= Len(s) /\ s[i + 2] = ChDQuote
    /\ ~CrtQuotedAfter(WordsBefore(s, i))

\* C35: Windows expandMacros returns not-ok when a macro whose replacement
\* needs quoting, as it holds a special character, comes right after a
\* closing double quote, and when an unescaped opening double quote comes
\* right after the closing quote put in after such a macro.
C35_QuotedValueNextToQuote ==
    (ExpandedWin /\ hasSpecialCharsWin(expander[MacroName])
       /\ \E i \in 1..Len(args) : AfterClosingQuote(args, i) \/ BeforeOpeningQuote(args, i))
    => ~mxOk

\* C35 witness: "a"%m with the value a b was refused
C35_Witness ==
    /\ ExpandedWin
    /\ args = <<ChDQuote, 97, ChDQuote>> \o MacroName
    /\ expander[MacroName] = <<97, ChSpace, 98>>
    /\ AfterClosingQuote(args, 4)
    /\ ~mxOk

(***************************************************************************)
(* expandMacros on Unix with the macro %m inside single and double quotes  *)
(* and values that hold quotes, backslashes, $, backticks and spaces.      *)
(***************************************************************************)
\* a space ' " \ %m
UxQuotedToks ==
    {<<97>>, <<ChSpace>>, <<ChSQuote>>, <<ChDQuote>>, <<ChBackslash>>, MacroName}

UxQuotedMaxLen == 6

\* the values: empty, a plain word, and words with a space, a single and a
\* double quote, a backslash, a dollar sign and a backtick
UxQuotedValues ==
    {<<>>, <<97>>, <<97, ChSpace, 98>>, <<ChSQuote>>, <<ChDQuote>>,
     <<ChBackslash>>, <<ChDollar>>, <<ChBacktick>>,
     <<97, ChSQuote>>, <<ChDQuote, 97>>, <<97, ChBackslash>>,
     <<ChBackslash, ChDQuote>>, <<ChSQuote, ChDQuote>>, <<ChDollar, 97>>}

InitMacroQuoted == InitFor("unix")

NextMacroQuoted ==
    \/ \E tok \in UxQuotedToks : TypeCmd(tok, UxQuotedMaxLen)
    \/ \E v \in UxQuotedValues : ExpandMacros(MacroName :> v, FALSE)

SpecMacroQuoted == InitMacroQuoted /\ [][NextMacroQuoted]_vars

RECURSIVE ShRegion(_, _, _)
\* the quoting of the shell after the text s: "basic" outside quotes,
\* "single" and "double" inside them, "escaped" and "doubleEscaped" right
\* after a backslash outside quotes and inside double quotes
ShRegion(s, i, st) ==
    IF i > Len(s) THEN st
    ELSE LET c == s[i]
             nxt == CASE st = "basic" ->
                         (IF c = ChBackslash THEN "escaped"
                          ELSE IF c = ChSQuote THEN "single"
                          ELSE IF c = ChDQuote THEN "double" ELSE "basic")
                    [] st = "escaped" -> "basic"
                    [] st = "single" -> (IF c = ChSQuote THEN "basic" ELSE "single")
                    [] st = "double" ->
                         (IF c = ChDQuote THEN "basic"
                          ELSE IF c = ChBackslash THEN "doubleEscaped" ELSE "double")
                    [] OTHER -> "double"
         IN  ShRegion(s, i + 1, nxt)

\* the quoting of the shell where the macro at index i of s starts
RegionAt(s, i) == ShRegion(SubSeq(s, 1, i - 1), 1, "basic")

\* s has a macro and the quoting where each macro starts is one of regions
MacrosIn(s, regions) ==
    /\ \E i \in 1..Len(s) : MacroAt(s, i)
    /\ \A i \in 1..Len(s) : MacroAt(s, i) => RegionAt(s, i) \in regions

\* the split with abortOnMeta and without an environment
MetaSplit(s) == splitArgsUnix(s, TRUE, NullEnv, <<>>)

\* the split of the expanded command line has the status and the words of
\* the split of the command line itself, with the value for the macro
SplitsAsTemplate(cmd, res, v) ==
    /\ MetaSplit(res).err = MetaSplit(cmd).err
    /\ MetaSplit(res).ret =
          [i \in 1..Len(MetaSplit(cmd).ret) |-> WithValue(MetaSplit(cmd).ret[i], v)]

\* expandMacros was called for a Unix command line
ExpandedUnix == pc = "expanded" /\ os = "unix"

\* the command line s is one of words: its split is Ok
SplitsOk(s) == MetaSplit(s).err = "SplitOk"

\* C36 as stated: on Unix, when the macros of a command line of words are
\* inside double or single quotes, expandMacros returns ok for every value
\* and the split of the result (abortOnMeta, no environment) gives the words
\* of the command line with the value put in literally for the macro.
C36_QuotedMacroKeepsWords ==
    (ExpandedUnix /\ SplitsOk(args)
        /\ MacrosIn(args, {"single", "double", "doubleEscaped"}))
    => /\ mxOk
       /\ SplitsAsTemplate(args, expanded, expander[MacroName])

\* C36, the statement that holds: the same for macros inside double or
\* single quotes that do not directly follow a backslash inside double
\* quotes.
C36_UnescapedQuotedMacroKeepsWords ==
    (ExpandedUnix /\ SplitsOk(args) /\ MacrosIn(args, {"single", "double"}))
    => /\ mxOk
       /\ SplitsAsTemplate(args, expanded, expander[MacroName])

\* C36 witness: a "%m" with the value \" was expanded to a "\\\"" and
\* splits into a and \"
C36_Witness ==
    /\ ExpandedUnix
    /\ args = <<97, ChSpace, ChDQuote>> \o MacroName \o <<ChDQuote>>
    /\ expander[MacroName] = <<ChBackslash, ChDQuote>>
    /\ mxOk
    /\ expanded = <<97, ChSpace, ChDQuote, ChBackslash, ChBackslash,
                    ChBackslash, ChDQuote, ChDQuote>>
    /\ MetaSplit(expanded).err = "SplitOk"
    /\ MetaSplit(expanded).ret = <<(<<97>>), <<ChBackslash, ChDQuote>>>>

(***************************************************************************)
(* The client of SpecProcess with a child that is gone some time after     *)
(* kill(), waits that end, and a run() that goes on when its event loop    *)
(* has ended.                                                              *)
(***************************************************************************)
SpecProcessLive ==
    /\ SpecProcess
    /\ WF_vars(\E crashed \in BOOLEAN, exitCode \in {0, 1} : ChildExit(crashed, exitCode))
    /\ WF_vars(WaitDone)
    /\ WF_vars(RunReturn)

\* an interactive run of a child that it started, that never writes output
\* and never exits on its own
SilentRun == hist.mode = "run" /\ hist.started /\ ~hist.adopted /\ SilentForever

\* the silent run is under way with the message box disabled
SilentRunUnderWay == SilentRun /\ ~Idle /\ ~priv.m_timeOutMessageBoxEnabled

\* the silent run went over the limit with the message box disabled
SilentRunEscalated == SilentRun /\ hist.escalations # <<>> /\ hist.asked = 0

\* up to tick m_maxHangTimerCount nothing is done to the child; from tick
\* m_maxHangTimerCount + 1 on terminate() was called, and, once the wait
\* that follows is over, kill() if and only if the child was running then
StoppedAtLimit ==
    SilentRunUnderWay
    => IF hist.ticks <= priv.m_maxHangTimerCount
       THEN /\ hist.terminates = 0 /\ hist.kills = 0
            /\ child.state = "Running"
            /\ hist.escalations = <<>>
       ELSE /\ hist.terminates >= 1
            /\ hist.escalations[1].silent = priv.m_maxHangTimerCount + 1
            /\ hist.kills >= 1 => child.onTerminate = "ignore"
            /\ at.wait # "stop1"
               => /\ IF child.onTerminate = "ignore" THEN hist.kills >= 1
                     ELSE hist.kills = 0
                  /\ child.state = "Running" => child.killSent

\* a silent run that went over the limit returns Hang
ReturnsHang ==
    (SilentRunEscalated /\ hist.returned # <<>>)
    => /\ hist.returned[1].result = "Hang"
       /\ child.state = "NotRunning"

\* C37: in an interactive run with the message box disabled, of a child
\* that never exits on its own and writes no output, at tick
\* m_maxHangTimerCount + 1 terminate() is called and, if the child is
\* running after the wait of 300 ms, kill(); with the child gone after the
\* kill, run() returns in the end, and its outcome is Hang.
C37_SilentRunEndsInHang ==
    /\ [](StoppedAtLimit /\ ReturnsHang)
    /\ SilentRunEscalated ~> (hist.returned # <<>> /\ hist.returned[1].result = "Hang")

\* C37 witness: with the limit 2 the third tick called terminate() and
\* kill() on a child that ignores terminate, the child was gone later and
\* the run returned Hang
C37_Witness ==
    /\ SilentRunEscalated
    /\ hist.escalations = <<[silent |-> 3, max |-> 2]>>
    /\ hist.ticks = 3
    /\ child.onTerminate = "ignore" /\ child.slowKill
    /\ hist.terminates = 1 /\ hist.kills = 1
    /\ hist.diedLatched
    /\ hist.returned # <<>> /\ hist.returned[1].result = "Hang"

(***************************************************************************)
(* The Windows split with abortOnMeta and the status variable of the       *)
(* caller, over the command lines of SpecWin.                              *)
(***************************************************************************)
\* what a call of the Windows split with abortOnMeta finds for the text a:
\* the status of prepareArgsWin when it is not Ok, with no words, and the
\* status and the words of the C runtime's split of the prepared text
\* otherwise
OutcomeWin(a, e, pwd, host) ==
    IF prepareArgsWin(a, e, pwd, host).err # "SplitOk"
    THEN [err |-> prepareArgsWin(a, e, pwd, host).err, ret |-> <<>>]
    ELSE doSplitArgsWin(prepareArgsWin(a, e, pwd, host).args)

\* splitArgs was called for a Windows command line with abortOnMeta
SplitWinMeta == pc = "split" /\ os = "win" /\ abortOnMeta /\ argList = <<>>

\* C38 as stated: the status and the word list of the Windows splitArgs with
\* abortOnMeta depend on the text, the environment and the working directory
\* only: they are the same whatever the caller's status variable held before
\* the call, and the variable holds the outcome of this call on return.
C38_StatusOfThisCall ==
    SplitWinMeta
    => /\ \A prior \in SplitError :
             /\ splitArgs(args, os, TRUE, TRUE, prior, env, <<>>, hostOs).ret = ret
             /\ splitArgs(args, os, TRUE, TRUE, prior, env, <<>>, hostOs).err = err
       /\ err = OutcomeWin(args, env, <<>>, hostOs).err
       /\ ret = OutcomeWin(args, env, <<>>, hostOs).ret

\* what holds: a caller whose variable held SplitOk gets the words of this
\* call, and its status when prepareArgsWin found no metacharacter
C38_StatusAfterSplitOk ==
    (SplitWinMeta /\ errIn = "SplitOk")
    => /\ ret = OutcomeWin(args, env, <<>>, hostOs).ret
       /\ prepareArgsWin(args, env, <<>>, hostOs).err = "SplitOk"
             => err = OutcomeWin(args, env, <<>>, hostOs).err

(***************************************************************************)
(* expandMacros on Unix over command lines with $(( and two macros, %m     *)
(* with the value x and %nn with the value y: the values are plain words,  *)
(* which are put in as they are in every context.                          *)
(***************************************************************************)
\* the macro %nn
MacroLong == <<ChPercent, 110, 110>>

\* $(( ( ) a %m %nn
RollbackToks == {<<ChDollar, 40, 40>>, <<40>>, <<41>>, <<97>>, MacroName, MacroLong}

RollbackMaxLen == 9

\* %m is x and %nn is y
TwoMacros == (MacroName :> <<120>>) @@ (MacroLong :> <<121>>)

InitRollback == InitFor("unix")

NextRollback ==
    \/ \E tok \in RollbackToks : TypeCmd(tok, RollbackMaxLen)
    \/ ExpandMacros(TwoMacros, FALSE)

SpecRollback == InitRollback /\ [][NextRollback]_vars

\* the name of mx the text s starts with, or the empty text
NameAhead(s, mx) ==
    IF \E n \in DOMAIN mx : Len(n) <= Len(s) /\ SubSeq(s, 1, Len(n)) = n
    THEN CHOOSE n \in DOMAIN mx : Len(n) <= Len(s) /\ SubSeq(s, 1, Len(n)) = n
    ELSE <<>>

RECURSIVE EachReplaced(_, _)
\* the text s with every macro of mx replaced by its own value
EachReplaced(s, mx) ==
    IF s = <<>> THEN <<>>
    ELSE IF NameAhead(s, mx) # <<>>
    THEN mx[NameAhead(s, mx)]
             \o EachReplaced(SubSeq(s, Len(NameAhead(s, mx)) + 1, Len(s)), mx)
    ELSE <<Head(s)>> \o EachReplaced(Tail(s), mx)

\* s holds a macro of mx
HoldsMacro(s, mx) == EachReplaced(s, mx) # s

\* s has no parenthesis
NoParen(s) == ~Holds(s, 40) /\ ~Holds(s, 41)

\* s is $(( , text with a macro, one closing parenthesis and text after it:
\* the $(( is found to be $( ( at the parenthesis at index k
RolledBackAt(s, k, mx) ==
    /\ k > 3 /\ k < Len(s)
    /\ SubSeq(s, 1, 3) = <<ChDollar, 40, 40>>
    /\ s[k] = 41
    /\ NoParen(SubSeq(s, 4, k - 1)) /\ HoldsMacro(SubSeq(s, 4, k - 1), mx)
    /\ NoParen(SubSeq(s, k + 1, Len(s)))

\* C39 as stated: Unix expandMacros replaces every macro occurrence by text
\* derived from its own value and its own span, also when the occurrence
\* lies inside a $(( region that is later found to be $( ( and is parsed
\* again after the rollback, and when a further macro follows that region.
C39_EachMacroItsOwnValue ==
    (ExpandedUnix /\ expander = TwoMacros
        /\ \E k \in 1..Len(args) : RolledBackAt(args, k, TwoMacros))
    => /\ mxOk
       /\ expanded = EachReplaced(args, TwoMacros)

\* what holds: the same when the macro that follows the first macro of the
\* region, if there is one, is the same macro
C39_SameMacroItsOwnValue ==
    (ExpandedUnix /\ expander = TwoMacros
        /\ \E k \in 1..Len(args) : RolledBackAt(args, k, TwoMacros)
        /\ \/ ~HoldsMacro(args, MacroName :> <<120>>)
           \/ ~HoldsMacro(args, MacroLong :> <<121>>))
    => /\ mxOk
       /\ expanded = EachReplaced(args, TwoMacros)

(***************************************************************************)
(* A client sets timeouts from the whole range of int and calls            *)
(* runBlocking().                                                          *)
(***************************************************************************)
\* INT_MIN, -1, 0, 1, 2, 3, INT_MAX / 1000, the value after it and INT_MAX
TimeoutValues ==
    {-IntMax - 1, -1, 0, 1, 2, 3, IntMax \div 1000, (IntMax \div 1000) + 1, IntMax}

TimeoutMaxRuns == 1

InitTimeout == InitFor("unix")

NextTimeout ==
    \/ \E t \in TimeoutValues : SetTimeoutS(t, ProcMaxCalls, TimeoutMaxRuns)
    \/ \E kind \in Children \cup {FailingChild}, immediate \in BOOLEAN, wrap \in BOOLEAN :
          RunBlocking(kind, immediate, wrap, TimeoutMaxRuns)
    \/ \E ch \in {"out", "err"}, bytes \in ProcBytes : ReadyRead(ch, bytes, ProcMaxBytes)
    \/ \E crashed \in BOOLEAN, exitCode \in {0, 1} : ChildExit(crashed, exitCode)
    \/ ProcessError
    \/ WaitDone

SpecTimeout == InitTimeout /\ [][NextTimeout]_vars

\* the stored hang limit is at least 2
LimitAtLeastTwo == priv.m_maxHangTimerCount >= 2

\* the limit times 1000 is an int, and is the wait runBlocking computed
WaitInRange ==
    hist.waitMs # <<>>
    => /\ hist.waitMs[1].max <= IntMax \div 1000
       /\ hist.waitMs[1].ms = hist.waitMs[1].max * 1000

\* setTimeoutS with a timeout that is not positive stores INT_MAX / 1000
NonPositiveIsLargest ==
    \A t \in TimeoutValues :
        (t <= 0 /\ SetTimeoutS(t, ProcMaxCalls, TimeoutMaxRuns)) => priv'.m_maxHangTimerCount = IntMax \div 1000

\* C40 as stated: for every 32-bit timeout passed to setTimeoutS the stored
\* hang limit is at least 2 and the wait in milliseconds that runBlocking
\* computes from it, m_maxHangTimerCount * 1000, stays within the range of
\* a signed 32-bit int; a timeout that is not positive selects the largest
\* such limit, INT_MAX / 1000.
C40_WaitFitsForEveryTimeout ==
    /\ [](LimitAtLeastTwo /\ WaitInRange)
    /\ [][NonPositiveIsLargest]_vars

\* what holds: the limit is at least 2, a timeout that is not positive
\* selects INT_MAX / 1000, and the wait is in range for the limits up to
\* INT_MAX / 1000
C40_WaitFitsUpToLargest ==
    /\ [](LimitAtLeastTwo
          /\ (hist.waitMs # <<>> /\ hist.waitMs[1].max <= IntMax \div 1000) => WaitInRange)
    /\ [][NonPositiveIsLargest]_vars

====

